---- MODULE Spec2Model ----
(***************************************************************************)
(* A model of the local development synchronisation engine of promptmodel: *)
(*   - the changelog reconciler and the reload pipeline                    *)
(*     (src/promptmodel/websocket/reload_handler.py),                      *)
(*   - the sync channel and its run executor                               *)
(*     (src/promptmodel/websocket/websocket_client.py),                    *)
(*   - the debounced file watcher (CodeReloadHandler.on_modified).         *)
(* Each part has its own specification over its own variables:             *)
(* SpecReload, SpecChannel and SpecWatch.                                  *)
(*                                                                         *)
(* Conventions.  A table of the local store is the set of its rows; a      *)
(* column declared unique (uuid) makes an insert of a present value raise  *)
(* IntegrityError.  Foreign keys are not enforced (peewee's SQLite         *)
(* default).  "[model_to_dict(x) for x in [T.select()]]" is read as the    *)
(* list of the rows of T.  A Python exception that leaves a function is a  *)
(* result with exc = TRUE.  In a dictionary on its way to the peer an      *)
(* absent key is "None" (or an empty mapping); a stream item is a str, a   *)
(* dict of one key, or a value of another type.  A step of the channel     *)
(* runs from one await to the next.  The watcher's time advances in ticks  *)
(* of 100 ms; a timer that is due runs before the next tick, and an event  *)
(* delivered in that tick comes before or after it.                        *)
(***************************************************************************)
EXTENDS Integers, Sequences, FiniteSets, TLC

VARIABLES
    \* ---- local store (peewee tables) ----
    modules,          \* PromptModel rows
    versions,         \* PromptModelVersion rows
    prompts,          \* Prompt rows
    run_logs,         \* RunLog rows
    project_version,  \* config["dev_branch"]["project_version"]
    \* ---- reload pipeline (CodeReloadHandler.reload_code) ----
    devapp,           \* dev_websocket_client._devapp: the registry's name list
    rpc,              \* position of the reload pipeline
    new_list,         \* new_prompt_model_name_list
    old_list,         \* old_prompt_model_name_list
    project_status,   \* the remote snapshot fetched by /pull_project
    local_db_list,    \* local_db_prompt_model_list carried across records
    entry,            \* the changelog entry being applied
    nReloads,         \* reload cycles started so far
    nRecords,         \* log records applied so far, over all reloads
    \* ---- history of the reconciliation (observation only) ----
    last,             \* the last log record applied and what it did
    api_calls,        \* the requests this reload has made to the backend (APIClient.execute)
    collisions,       \* name collisions met by the ADD module records of this reload
    \* ---- sync channel (DevWebsocketClient) ----
    cpc,              \* position of connect_to_gateway / __handle_message
    attempts,         \* iterations of "for _ in range(retries)" started
    conn,             \* the websocket: "none", "open" or "dropped" (closed by the peer)
    nMsgs,            \* inbound messages received so far
    message,          \* the inbound message being handled (the last one handled)
    response,         \* the handler's response dictionary
    data,             \* the handler's local "data"
    output,           \* output = {"raw_output", "parsed_outputs"}
    sample_input,     \* the resolved input of the run
    version_uuid,     \* llm_module_version_uuid of the run
    oplog,            \* operator-facing log: number of records per kind
    \* ---- history of the request being handled (observation only) ----
    outbox,           \* messages sent for the request, in order
    consumed,         \* items of the LLM stream consumed by the run, in order
    llm_calls,        \* the message lists handed to dev_generate
    hres,             \* how the handler of the request ended
    rows_before,      \* the number of run logs when the latest request arrived
    \* ---- file watcher (CodeReloadHandler) ----
    timer,            \* self.timer
    pending,          \* ticks left of the started timers, neither fired nor cancelled
    sinceLast,        \* ticks since the last write event on a .py file (-1: none yet)
    nEvents,          \* file events delivered so far
    \* ---- history of the current burst (observation only) ----
    burstLen,         \* .py events of the burst, each less than 500 ms after the previous
    reloadsSince,     \* reloads started since the last .py event
    firedAt,          \* sinceLast when the latest of them started (-1: none)
    reloading,        \* timer threads that are executing reload_code
    escaped,          \* exceptions that left reload_code and its timer thread
    lastReload,       \* how the latest reload_code ended, and the registry before it
    \* ---- registry lock (DevWebsocketClient.rwlock) ----
    lpc,              \* position of each thread in its use of the lock
    c_lock_read,      \* RWLockFair.c_lock_read: its owner, or "free"
    c_lock_read_count,\* RWLockFair.c_lock_read_count
    c_lock_write,     \* RWLockFair.c_lock_write
    v_read_count,     \* RWLockFair.v_read_count
    new_client,       \* the argument of each call of update_client_instance
    lastRead,         \* the latest read of the registry (observation only)
    ws,               \* self.ws: unset, a connection that is open, one that has closed
    lastSwap,         \* the latest update_client_instance (observation only)
    \* --- registration of modules (dev_app.py, promptmodel.py) ---
    prompt_models,    \* DevClient.prompt_models of each client: a list of names
    app_prompt_models,\* DevApp.prompt_models: a list of names
    nOps,             \* registrations and constructions made so far
    lastConstruct,    \* the latest construction of a module object (observation)
    \* --- a run through LLMProxy (llm_proxy.py) ---
    ppc,              \* where the wrapper of the run is
    wrapped,          \* which wrapper runs: method, async_method, gen, async_gen
    config,           \* what read_config() gives for the dev branch
    fetches,          \* calls of fetch_prompts made by the run
    log_calls,        \* calls of _log_to_cloud made by the run
    posts,            \* POST /log_deployment_run requests made by the run
    raw_response,     \* the wrapper's raw_response: "None" or "api_response"
    string_cache,     \* the wrapper's string_cache
    error_occurs,     \* the wrapper's error_occurs
    nYielded,         \* items the wrapper has yielded to its caller
    nProxyRuns,       \* runs started so far
    \* --- one batch of the changelog (update_by_changelog_for_reload) ---
    changelogs,       \* the batch as received: a list of entries {level, logs}
    bpc,              \* where the replay of the batch is
    ci,               \* the position of `for changelog in changelogs`
    li,               \* the position of `for log in logs`
    appliedLogs       \* what the replay has applied so far, in order (observation)

storeVars == <<modules, versions, prompts, run_logs, project_version>>
reloadVars == <<devapp, rpc, new_list, old_list, project_status, local_db_list,
                entry, nReloads, nRecords, last, collisions,
                api_calls>>

chanVars == <<cpc, attempts, conn, nMsgs, message, response, data, output,
              sample_input, version_uuid, oplog, outbox, consumed, llm_calls, hres,
              rows_before>>

watchVars == <<timer, pending, sinceLast, nEvents, burstLen, reloadsSince, firedAt,
               reloading, escaped, lastReload>>

\* the locals of reload_code (the registry aside)
reloadLocals == <<rpc, new_list, old_list, project_status, local_db_list,
                  entry, nReloads, nRecords, last, collisions,
                  api_calls>>

lockVars == <<lpc, c_lock_read, c_lock_read_count, c_lock_write, v_read_count,
              new_client, lastRead,
              ws, lastSwap>>

regVars == <<prompt_models, app_prompt_models, nOps, lastConstruct>>

proxyVars == <<ppc, wrapped, config, fetches, log_calls, posts, raw_response,
               string_cache, error_occurs, nYielded, nProxyRuns>>

batchVars == <<changelogs, bpc, ci, li, appliedLogs>>

-----------------------------------------------------------------------------
(* Bounds of the reload model *)

MaxReloads == 2
MaxRecords == 3

(* The universe the inputs are drawn from *)

Names == {"a", "b"}

\* the backend's modules: one per name (names are unique within a project)
RemoteModules == { [uuid |-> "RA", name |-> "a"], [uuid |-> "RB", name |-> "b"] }

RemoteVersions == { [uuid |-> "V1", prompt_model_uuid |-> "RA", status |-> "working"],
                    [uuid |-> "V2", prompt_model_uuid |-> "RB", status |-> "broken"] }

RemotePrompts == { [uuid |-> "P1", version_uuid |-> "V1"],
                   [uuid |-> "P2", version_uuid |-> "V2"] }

RemoteRunLogs == { [uuid |-> "L1", version_uuid |-> "V1"],
                   [uuid |-> "L2", version_uuid |-> "V2"] }

\* the order in which a snapshot lists its records
SnapshotOrder == <<"RA", "RB", "V1", "V2">>

\* a snapshot holds the versions of the modules it holds, and the prompts and
\* run logs of those versions
SnapshotOf(ms) ==
    LET vs == {v \in RemoteVersions : \E m \in ms : m.uuid = v.prompt_model_uuid}
    IN  [prompt_models |-> ms,
         prompt_model_versions |-> vs,
         prompts |-> {p \in RemotePrompts : \E v \in vs : v.uuid = p.version_uuid},
         run_logs |-> {l \in RemoteRunLogs : \E v \in vs : v.uuid = l.version_uuid}]

Snapshots == { SnapshotOf(RemoteModules), SnapshotOf({m \in RemoteModules : m.name = "b"}) }

Subjects == {"prompt_model", "prompt_model_version", "other"}
Actions == {"ADD", "DEL", "CHANGE", "FIX"}

LogRecords ==
    { [subject |-> "prompt_model", action |-> "ADD", identifiers |-> ids]
        : ids \in (SUBSET {"RA", "RB"}) \ {{}} }
    \cup
    { [subject |-> "prompt_model_version", action |-> "ADD", identifiers |-> ids]
        : ids \in (SUBSET {"V1", "V2"}) \ {{}} }
    \cup
    { [subject |-> "prompt_model", action |-> "DEL", identifiers |-> {"RA"}],
      [subject |-> "prompt_model", action |-> "CHANGE", identifiers |-> {"RA"}],
      [subject |-> "prompt_model_version", action |-> "DEL", identifiers |-> {"V1"}],
      [subject |-> "prompt_model_version", action |-> "FIX", identifiers |-> {"V1"}],
      [subject |-> "other", action |-> "ADD", identifiers |-> {"RA"}] }

\* the backend lists a version only after the module that owns it: an ADD
\* version record reaches the reconciler when the module is in the local store
\* (from the local store of an earlier batch or from an earlier record)
Consistent(rec, status, ms) ==
    (rec.subject = "prompt_model_version" /\ rec.action = "ADD")
    => \A v \in status.prompt_model_versions :
          v.uuid \in rec.identifiers => \E m \in ms : m.uuid = v.prompt_model_uuid

Levels == {1, 2, 3}
PreviousVersions == { <<1, 2, 3>> }

NoEntry == [level |-> 0]
NoRecord == [subject |-> "none", action |-> "none", identifiers |-> {}]
NoLast == [rec |-> NoRecord, outcome |-> "none", inserted |-> {}, again |-> {}]
NoStatus == [prompt_models |-> {}, prompt_model_versions |-> {},
             prompts |-> {}, run_logs |-> {}]
NoneList == [none |-> TRUE, rows |-> {}]

-----------------------------------------------------------------------------
(* The local store *)

\* uuid4() of a row created locally for module `name`
LocalUuid(name) == IF name = "a" THEN "LA" ELSE "LB"

\* the row dictionaries a select over PromptModel gives: {"name", "uuid"}
SelectPromptModels(ms) ==
    [none |-> FALSE, rows |-> { [uuid |-> m.uuid, name |-> m.name] : m \in ms }]

\* PromptModel.update(used_in_code=flag).where(PromptModel.name.in_(names))
UpdateUsedInCode(ms, names, flag) ==
    { IF m.name \in names THEN [m EXCEPT !.used_in_code = flag] ELSE m : m \in ms }

\* crud.update_prompt_model_uuid(local_uuid, new_uuid): the identifier-remap
\* operation; rewrites the module's identifier and every foreign key to it
RemapModuleRows(ms, local_uuid, new_uuid) ==
    { IF m.uuid = local_uuid THEN [m EXCEPT !.uuid = new_uuid] ELSE m : m \in ms }

RemapVersionRows(vs, local_uuid, new_uuid) ==
    { IF v.prompt_model_uuid = local_uuid
        THEN [v EXCEPT !.prompt_model_uuid = new_uuid] ELSE v : v \in vs }

\* elements of set S in the order of sequence `order`
RECURSIVE InOrder(_, _)
InOrder(order, S) ==
    IF order = <<>> THEN <<>>
    ELSE IF \E x \in S : x.uuid = Head(order)
         THEN <<CHOOSE x \in S : x.uuid = Head(order)>> \o InOrder(Tail(order), S)
         ELSE InOrder(Tail(order), S)

-----------------------------------------------------------------------------
(* The changelog reconciler.  The store and the carried module list are    *)
(* threaded through the functions as a record                              *)
(*   [modules, versions, prompts, run_logs, list, exc].                    *)

Raise(st) == [st EXCEPT !.exc = TRUE]

\* a collision test by identifier instead of by name
NameNotInLocalList_ByUuid(pm, list) ==
    pm.uuid \notin { x.uuid : x \in list.rows }

\* prompt_model["name"] not in local_db_prompt_model_name_list  (line 291)
NameNotInLocalList(pm, list) ==
    pm.name \notin { x.name : x \in list.rows }

\* PromptModel.create(**prompt_model) with the flags of lines 293-299
CreatePromptModel(st, pm, code_names) ==
    IF \E m \in st.modules : m.uuid = pm.uuid
    THEN Raise(st)                                   \* IntegrityError: uuid is unique
    ELSE [st EXCEPT !.modules = @ \cup
            { [uuid |-> pm.uuid, name |-> pm.name,
               used_in_code |-> (pm.name \in code_names),
               is_deployed |-> TRUE] }]

\* "Fix UUID of prompt_model": lines 303-313
FixPromptModelUuid(st, pm) ==
    IF ~ \E m \in st.modules : m.name = pm.name
    THEN Raise(st)                                   \* PromptModel.get: DoesNotExist
    ELSE LET local_uuid == (CHOOSE m \in st.modules : m.name = pm.name).uuid
             ms == RemapModuleRows(st.modules, local_uuid, pm.uuid)
         IN  [st EXCEPT !.modules = ms,
                        !.versions = RemapVersionRows(@, local_uuid, pm.uuid),
                        !.list = SelectPromptModels(ms)]

\* the loop of update_prompt_model_changelog over the referenced remote modules
RECURSIVE PromptModelLoop(_, _, _)
PromptModelLoop(pms, st, code_names) ==
    IF pms = <<>> \/ st.exc THEN st
    ELSE IF st.list.none THEN Raise(st)              \* TypeError: None is not iterable
    ELSE IF NameNotInLocalList(Head(pms), st.list)
         THEN PromptModelLoop(Tail(pms), CreatePromptModel(st, Head(pms), code_names),
                              code_names)
         ELSE PromptModelLoop(Tail(pms), FixPromptModelUuid(st, Head(pms)), code_names)

\* a reconciler that deletes the modules a non-ADD record names, for comparison
update_prompt_model_changelog_Deletes(action, status, uuid_list, st, code_names) ==
    IF action = "ADD"
    THEN PromptModelLoop(
            InOrder(SnapshotOrder, {x \in status.prompt_models : x.uuid \in uuid_list}),
            st, code_names)
    ELSE [st EXCEPT !.modules = { m \in @ : m.uuid \notin uuid_list }]

\* update_prompt_model_changelog (lines 275-318)
update_prompt_model_changelog(action, status, uuid_list, st, code_names) ==
    IF action = "ADD"
    THEN PromptModelLoop(
            InOrder(SnapshotOrder, {x \in status.prompt_models : x.uuid \in uuid_list}),
            st, code_names)
    ELSE st                                          \* DELETE, CHANGE, FIX: pass

\* lines 328-340: the versions of the modules of the carried list
LocalVersionsOfList(st) ==
    { v \in st.versions : \E x \in st.list.rows : v.prompt_model_uuid = x.uuid }

\* lines 341-347: the identifier-presence filter
FilterPresent(uuid_list, local_versions) ==
    { u \in uuid_list : u \notin { v.uuid : v \in local_versions } }

AddedStatus_Remote(v) == v.status

\* status of a version inserted from an ADD record (line 364)
AddedStatus(v) == "candidate"

\* lines 349-371: the three bulk inserts, in order, none in a transaction
InsertVersionGroup(st, status, ids) ==
    LET vs == { [v EXCEPT !.status = AddedStatus(v)]
                  : v \in {x \in status.prompt_model_versions : x.uuid \in ids} }
        ps == { x \in status.prompts : x.version_uuid \in ids }
        rs == { x \in status.run_logs : x.version_uuid \in ids }
    IN  IF \E v \in vs : \E w \in st.versions : w.uuid = v.uuid
        THEN Raise(st)
        ELSE IF st.fault = "prompts"
                \/ \E p \in ps : \E q \in st.prompts : q.uuid = p.uuid
        THEN Raise([st EXCEPT !.versions = @ \cup vs])
        ELSE IF st.fault = "run_logs"
                \/ \E r \in rs : \E q \in st.run_logs : q.uuid = r.uuid
        THEN Raise([st EXCEPT !.versions = @ \cup vs, !.prompts = @ \cup ps])
        ELSE [st EXCEPT !.versions = @ \cup vs, !.prompts = @ \cup ps,
                        !.run_logs = @ \cup rs]

update_prompt_model_version_changelog(action, status, uuid_list, st) ==
    IF st.list.none THEN Raise(st)                   \* TypeError: None is not iterable
    ELSE LET ids == FilterPresent(uuid_list, LocalVersionsOfList(st))
         IN  IF action = "ADD"
             THEN InsertVersionGroup(st, status, ids)
             ELSE [st EXCEPT !.list = NoneList]      \* falls off the end: returns None

\* one log record of an entry of level `level` (lines 183-254)
ApplyRecord(level, rec, status, st, code_names) ==
    IF level = 1 /\ rec.subject = "prompt_model"
    THEN update_prompt_model_changelog(rec.action, status, rec.identifiers, st, code_names)
    ELSE IF level \in {1, 2} /\ rec.subject = "prompt_model_version"
    THEN update_prompt_model_version_changelog(rec.action, status, rec.identifiers, st)
    ELSE st

\* a bump that leaves the lower parts as they were, for comparison
BumpVersion_KeepsLower(level, pv) ==
    IF level = 1 THEN <<pv[1] + 1, pv[2], pv[3]>>
    ELSE IF level = 2 THEN <<pv[1], pv[2] + 1, pv[3]>>
    ELSE <<pv[1], pv[2], pv[3] + 1>>

\* the version counter of an entry (lines 224-269), as a triple
BumpVersion(level, pv) ==
    IF level = 1 THEN <<pv[1] + 1, 0, 0>>
    ELSE IF level = 2 THEN <<pv[1], pv[2] + 1, 0>>
    ELSE <<pv[1], pv[2], pv[3] + 1>>

-----------------------------------------------------------------------------
(* The reload pipeline: CodeReloadHandler.reload_code *)

StoreState == [modules |-> modules, versions |-> versions, prompts |-> prompts,
               run_logs |-> run_logs, list |-> local_db_list, exc |-> FALSE,
               fault |-> "none"]

\* an execute() of the store can fail for a reason of its own (the database
\* is locked by the channel's thread, a row the table refuses): which of the
\* inserts of a version group, after the first, the store refuses
Faults == {"none", "prompts", "run_logs"}

FaultsFor(rec) ==
    IF rec.subject = "prompt_model_version" /\ rec.action = "ADD"
    THEN Faults ELSE {"none"}

\* a reload that hands the new registry to the channel first, for comparison
StartReload_SwapsFirst ==
    /\ rpc \in {"idle", "done", "failed"}
    /\ \E nl \in SUBSET Names, ps \in Snapshots :
         /\ new_list' = nl
         /\ old_list' = devapp
         /\ devapp' = nl
         /\ project_status' = ps
         /\ modules' = UpdateUsedInCode(modules, devapp \ nl, FALSE)
         /\ local_db_list' = SelectPromptModels(modules')
    /\ rpc' = "changelog"
    /\ nReloads < MaxReloads
    /\ nReloads' = nReloads + 1
    /\ entry' = NoEntry
    /\ last' = NoLast
    /\ collisions' = {}
    /\ api_calls' = { [method |-> "GET", path |-> "/pull_project", body |-> {}],
                      [method |-> "GET", path |-> "/get_changelog", body |-> {}] }
    /\ UNCHANGED <<versions, prompts, run_logs, project_version, nRecords>>

\* lines 73-125 up to the first changelog entry: read the name lists, clear the
\* flag of the modules that disappeared from the code, fetch the snapshot and
\* the changelog, read the local module list (line 173)
StartReload ==
    /\ rpc \in {"idle", "done", "failed"}
    /\ \E nl \in SUBSET Names, ps \in Snapshots :
         /\ new_list' = nl
         /\ old_list' = devapp
         /\ project_status' = ps
         /\ modules' = UpdateUsedInCode(modules, devapp \ nl, FALSE)
         /\ local_db_list' = SelectPromptModels(modules')
    /\ rpc' = "changelog"
    /\ nReloads < MaxReloads
    /\ nReloads' = nReloads + 1
    /\ entry' = NoEntry
    /\ last' = NoLast
    /\ collisions' = {}
    /\ api_calls' = { [method |-> "GET", path |-> "/pull_project", body |-> {}],
                      [method |-> "GET", path |-> "/get_changelog", body |-> {}] }
    /\ UNCHANGED <<versions, prompts, run_logs, project_version, devapp, nRecords>>

\* for changelog in changelogs: the next entry of the batch
BeginEntry ==
    /\ rpc = "changelog"
    /\ \E lv \in Levels : entry' = [level |-> lv]
    /\ rpc' = "entry"
    /\ UNCHANGED <<storeVars, devapp, new_list, old_list, project_status,
                   local_db_list, nReloads, nRecords, last, collisions,
                   api_calls>>

\* for log in logs: one log record of the entry (levels 1 and 2 read their logs)
ApplyLog ==
    /\ rpc = "entry"
    /\ entry.level \in {1, 2}
    /\ nRecords < MaxRecords
    /\ \E rec \in { r \in LogRecords : Consistent(r, project_status, modules) } :
       \E f \in FaultsFor(rec) :
         LET st == ApplyRecord(entry.level, rec, project_status,
                               [StoreState EXCEPT !.fault = f], new_list)
             ins == { v.uuid : v \in st.versions } \ { v.uuid : v \in versions }
         IN  /\ modules' = st.modules
             /\ versions' = st.versions
             /\ prompts' = st.prompts
             /\ run_logs' = st.run_logs
             /\ local_db_list' = st.list
             /\ rpc' = IF st.exc THEN "failed" ELSE "entry"
             /\ last' = [rec |-> rec,
                         outcome |-> IF st.exc THEN "raised" ELSE "applied",
                         inserted |-> ins,
                         again |-> IF rec.subject = "prompt_model_version"
                                   THEN rec.identifiers \cap { v.uuid : v \in versions }
                                   ELSE {}]
             /\ collisions' =
                  IF entry.level = 1 /\ rec.subject = "prompt_model" /\ rec.action = "ADD"
                     /\ ~ st.exc
                  THEN collisions \cup
                       { [name |-> p[1].name, local |-> p[1].uuid, remote |-> p[2].uuid,
                          refs |-> { v.uuid : v \in { w \in versions :
                                                        w.prompt_model_uuid = p[1].uuid } }]
                           : p \in { q \in modules \X project_status.prompt_models :
                                        /\ q[2].uuid \in rec.identifiers
                                        /\ q[1].name = q[2].name
                                        /\ q[1].uuid # q[2].uuid } }
                  ELSE collisions
    /\ nRecords' = nRecords + 1
    /\ UNCHANGED <<project_version, devapp, new_list, old_list, project_status,
                   entry, nReloads, api_calls>>

\* the end of the entry: upsert_config of the bumped version (line 271)
EndEntry ==
    /\ rpc = "entry"
    /\ \E pv \in PreviousVersions : project_version' = BumpVersion(entry.level, pv)
    /\ rpc' = "changelog"
    /\ entry' = NoEntry
    /\ last' = NoLast
    /\ UNCHANGED <<modules, versions, prompts, run_logs, devapp, new_list, old_list,
                   project_status, local_db_list, nReloads, nRecords, collisions,
                   api_calls>>

\* lines 127-129: PromptModel.update(used_in_code=True).where(name.not_in(old))
FlagNotInOldList(ms, old) ==
    UpdateUsedInCode(ms, { m.name : m \in ms } \ old, TRUE)

\* lines 136-146: rows for the names of the code that the store does not hold
InsertOnlyInLocal(ms, nl) ==
    ms \cup { [uuid |-> LocalUuid(n), name |-> n, used_in_code |-> TRUE,
               is_deployed |-> FALSE] : n \in nl \ { m.name : m \in ms } }

\* lines 127-163: after the last entry, set the flags, insert the purely local
\* modules and hand the new registry to the channel
FinishReload ==
    /\ rpc = "changelog"
    /\ modules' = InsertOnlyInLocal(FlagNotInOldList(modules, old_list), new_list)
    /\ devapp' = new_list
    /\ rpc' = "done"
    /\ UNCHANGED <<versions, prompts, run_logs, project_version, new_list, old_list,
                   project_status, local_db_list, entry, nReloads, nRecords,
                   last, collisions, api_calls>>

\* lines 127-162 raising: an execute() of the store refused (the update of
\* the flags, the insert of the purely local modules) or update_samples
\* raising; the statements before the one that raised have taken effect and
\* line 163 is not reached
FinishStages == {"flags", "inserts", "samples"}

FinishRaises ==
    /\ rpc = "changelog"
    /\ \E stage \in FinishStages :
         modules' = IF stage = "flags" THEN modules
                    ELSE IF stage = "inserts" THEN FlagNotInOldList(modules, old_list)
                    ELSE InsertOnlyInLocal(FlagNotInOldList(modules, old_list), new_list)
    /\ rpc' = "failed"
    /\ UNCHANGED <<versions, prompts, run_logs, project_version, devapp, new_list,
                   old_list, project_status, local_db_list, entry, nReloads, nRecords,
                   last, collisions, api_calls>>

\* a run request that names no version creates one for its module
\* (websocket_client.py lines 140-150)
LocalVersionUuid == "LV"

CreateVersionForRun ==
    /\ rpc \in {"idle", "done", "failed"}
    /\ ~ \E v \in versions : v.uuid = LocalVersionUuid
    /\ \E m \in modules :
         /\ m.name \in devapp
         /\ versions' = versions \cup
              { [uuid |-> LocalVersionUuid, prompt_model_uuid |-> m.uuid,
                 status |-> "broken"] }
    /\ UNCHANGED <<modules, prompts, run_logs, project_version, reloadVars>>

-----------------------------------------------------------------------------
(* The sync channel: data of DevWebsocketClient *)

\* bounds of the channel model
Retries == 2
MaxMessages == 2
MaxRuns == 1
MaxItems == 3

\* message.get("correlation_id") / message.get("runner_id"): "None" is an
\* absent (or falsy) value
IdPairs == { <<"None", "None">>, <<"c1", "None">>, <<"c1", "r1">> }

\* the samples table: a sample with the field x, one with the field y only and
\* one with no field
Samples == { [name |-> "s1", contents |-> { <<"x", "1">> }],
             [name |-> "s2", contents |-> { <<"y", "2">> }],
             [name |-> "s0", contents |-> {}] }
SampleNames == {"None", "s1", "s2", "s0", "nope"}

\* message["prompts"]: the template of a prompt and the fields it references
Templates == { [text |-> "hi", fields |-> {}],
               [text |-> "say {x}", fields |-> {"x"}] }

GivenVersionUuid == "LV0"

NoMessage ==
    [kind |-> "none", type |-> "None", correlation_id |-> "None",
     runner_id |-> "None", llm_module_name |-> "None", sample_name |-> "None",
     uuid |-> "None", prompts |-> [text |-> "", fields |-> {}]]

\* a frame that is not JSON
TextFrame == [NoMessage EXCEPT !.kind = "text"]

\* JSON messages of the task kinds with no branch for a run
PlainMessages ==
    { [NoMessage EXCEPT !.kind = "json", !.type = t,
                        !.correlation_id = ids[1], !.runner_id = ids[2]] :
        t \in {"LIST_MODULES", "LIST_SAMPLES"}, ids \in IdPairs }

\* the fields a run reads after the lookups of the sample and of the module
\* vary only in the messages that pass both lookups
RunMessages ==
    { [kind |-> "json", type |-> "RUN_LLM_MODULE",
       correlation_id |-> ids[1], runner_id |-> ids[2],
       llm_module_name |-> "a", sample_name |-> s, uuid |-> u, prompts |-> t] :
        ids \in IdPairs, s \in SampleNames \ {"nope"},
        u \in {"None", GivenVersionUuid}, t \in Templates } \cup
    { [kind |-> "json", type |-> "RUN_LLM_MODULE",
       correlation_id |-> ids[1], runner_id |-> ids[2],
       llm_module_name |-> ns[1], sample_name |-> ns[2], uuid |-> "None",
       prompts |-> [text |-> "hi", fields |-> {}]] :
        ids \in IdPairs, ns \in { <<"a", "nope">>, <<"zz", "None">>, <<"zz", "nope">> } }

InboundMessages == {TextFrame} \cup PlainMessages \cup RunMessages

\* items of the stream dev_generate gives: a str, a dict of one key, or a
\* value that is neither
StreamItems ==
    { [kind |-> "raw", key |-> "", value |-> v] : v \in {"He", "lo"} } \cup
    { [kind |-> "parsed", key |-> kv[1], value |-> kv[2]] :
        kv \in { <<"name", "Al">>, <<"name", "ice">>, <<"age", "3">> } } \cup
    { [kind |-> "other", key |-> "", value |-> ""] }

NoInput == [none |-> TRUE, contents |-> {}]

\* a dictionary on the way out: absent keys are "None", {} or not present
NoData ==
    [bound |-> FALSE, type |-> "None", status |-> "None", raw_output |-> "None",
     parsed_outputs |-> {}, llm_module_version_uuid |-> "None",
     inputs |-> [present |-> FALSE, contents |-> {}], log |-> "None",
     llm_modules |-> [present |-> FALSE, rows |-> {}],
     correlation_id |-> "None", runner_id |-> "None"]

EmptyOutput == [raw_output |-> "", parsed_outputs |-> {}]

\* the records logged for the operator, counted by level
NoOplog == [success |-> 0, warning |-> 0, error |-> 0]

\* the channel is not part of the reload specification
ChannelAtRest ==
    /\ cpc = "loop"
    /\ attempts = 0
    /\ conn = "none"
    /\ nMsgs = 0
    /\ message = NoMessage
    /\ response = NoData
    /\ data = NoData
    /\ output = EmptyOutput
    /\ sample_input = NoInput
    /\ version_uuid = "unbound"
    /\ oplog = NoOplog
    /\ outbox = <<>>
    /\ consumed = <<>>
    /\ llm_calls = <<>>
    /\ hres = "none"
    /\ rows_before = 0

\* the watcher is part of neither the reload nor the channel specification
WatcherAtRest ==
    /\ timer = [set |-> FALSE, pending |-> FALSE]
    /\ pending = <<>>
    /\ sinceLast = -1
    /\ nEvents = 0
    /\ burstLen = 0
    /\ reloadsSince = 0
    /\ firedAt = -1
    /\ reloading = 0
    /\ escaped = 0
    /\ lastReload = [outcome |-> "none", before |-> {}]

\* the lock is free and no thread is using it
LockAtRest ==
    /\ lpc = [t \in {"loop", "t1", "t2"} |-> "idle"]
    /\ c_lock_read = "free"
    /\ c_lock_read_count = "free"
    /\ c_lock_write = "free"
    /\ v_read_count = 0
    /\ new_client = [t \in {"t1", "t2"} |-> {}]
    /\ lastRead = [by |-> "none", value |-> {}, locked |-> FALSE]
    /\ ws = "unset"
    /\ lastSwap = [by |-> "none", ws |-> "unset", applied |-> FALSE,
                   attempted |-> FALSE, sent |-> FALSE, raised |-> "None"]

\* no client has registered anything and no module object was constructed
RegistryAtRest ==
    /\ prompt_models = [c \in {"c1", "c2"} |-> <<>>]
    /\ app_prompt_models = <<>>
    /\ nOps = 0
    /\ lastConstruct = [name |-> "none", scope |-> <<>>, returned |-> FALSE,
                        registered |-> {}]

\* no run through the proxy has been started
ProxyAtRest ==
    /\ ppc = "idle"
    /\ wrapped = "none"
    /\ config = "deployed"
    /\ fetches = 0
    /\ log_calls = 0
    /\ posts = 0
    /\ raw_response = "None"
    /\ string_cache = ""
    /\ error_occurs = FALSE
    /\ nYielded = 0
    /\ nProxyRuns = 0

\* no batch of the changelog is being replayed on its own
BatchAtRest ==
    /\ changelogs = <<>>
    /\ bpc = "idle"
    /\ ci = 1
    /\ li = 1
    /\ appliedLogs = <<>>

InitReload ==
    /\ ChannelAtRest
    /\ WatcherAtRest
    /\ LockAtRest
    /\ RegistryAtRest
    /\ ProxyAtRest
    /\ BatchAtRest
    /\ modules = {}
    /\ versions = {}
    /\ prompts = {}
    /\ run_logs = {}
    /\ project_version = <<0, 0, 0>>
    /\ devapp = {}
    /\ rpc = "idle"
    /\ new_list = {}
    /\ old_list = {}
    /\ project_status = NoStatus
    /\ local_db_list = NoneList
    /\ entry = NoEntry
    /\ nReloads = 0
    /\ nRecords = 0
    /\ last = NoLast
    /\ collisions = {}
    /\ api_calls = {}

NextReload ==
    \/ StartReload /\ UNCHANGED <<chanVars, watchVars, lockVars, regVars, proxyVars, batchVars>>
    \/ BeginEntry /\ UNCHANGED <<chanVars, watchVars, lockVars, regVars, proxyVars, batchVars>>
    \/ ApplyLog /\ UNCHANGED <<chanVars, watchVars, lockVars, regVars, proxyVars, batchVars>>
    \/ EndEntry /\ UNCHANGED <<chanVars, watchVars, lockVars, regVars, proxyVars, batchVars>>
    \/ FinishReload /\ UNCHANGED <<chanVars, watchVars, lockVars, regVars, proxyVars, batchVars>>
    \/ FinishRaises /\ UNCHANGED <<chanVars, watchVars, lockVars, regVars, proxyVars, batchVars>>
    \/ CreateVersionForRun /\ UNCHANGED <<chanVars, watchVars, lockVars, regVars, proxyVars, batchVars>>

vars == <<storeVars, reloadVars, chanVars, watchVars, lockVars, regVars, proxyVars, batchVars>>

SpecReload == InitReload /\ [][NextReload]_vars

-----------------------------------------------------------------------------
(* The sync channel: __handle_message *)

\* the response dictionary with the identifiers of the request
Echo(m) ==
    [NoData EXCEPT !.bound = TRUE,
                   !.correlation_id = m.correlation_id,
                   !.runner_id = m.runner_id]

\* d.update(r): the keys of r replace those of d
DictUpdate(d, r) ==
    [bound |-> TRUE,
     type |-> IF r.type # "None" THEN r.type ELSE d.type,
     status |-> IF r.status # "None" THEN r.status ELSE d.status,
     raw_output |-> IF r.raw_output # "None" THEN r.raw_output ELSE d.raw_output,
     parsed_outputs |-> IF r.parsed_outputs # {} THEN r.parsed_outputs
                        ELSE d.parsed_outputs,
     llm_module_version_uuid |->
         IF r.llm_module_version_uuid # "None" THEN r.llm_module_version_uuid
         ELSE d.llm_module_version_uuid,
     inputs |-> IF r.inputs.present THEN r.inputs ELSE d.inputs,
     log |-> IF r.log # "None" THEN r.log ELSE d.log,
     llm_modules |-> IF r.llm_modules.present THEN r.llm_modules ELSE d.llm_modules,
     correlation_id |-> IF r.correlation_id # "None" THEN r.correlation_id
                        ELSE d.correlation_id,
     runner_id |-> IF r.runner_id # "None" THEN r.runner_id ELSE d.runner_id]

\* ws.send(json.dumps(d)): a JSON frame holding the dictionary
Json(d) == [format |-> "json", text |-> "None", body |-> d]

\* ws.send(str(error)): a frame holding the text of the error only
ErrorText(err) == [format |-> "text", text |-> err, body |-> NoData]

\* json.dumps of a mapping (or None) and of a string
JsonObject(si) ==
    [json |-> IF si.none THEN "null" ELSE "object", contents |-> si.contents]
JsonString(s) == [json |-> "string", value |-> s]

Keys(mapping) == { kv[1] : kv \in mapping }

\* "if sample_input:" is false for None and for the empty mapping
Truthy(si) == ~ si.none /\ si.contents # {}

\* prompt["content"].format(**sample_input) raises KeyError on a missing field
FormatRaises(t, si) == ~ (t.fields \subseteq Keys(si.contents))

\* messages_for_run
MessagesForRun(t, si) ==
    IF Truthy(si)
    THEN [formatted |-> TRUE, text |-> t.text, fields |-> t.fields,
          values |-> { kv \in si.contents : kv[1] \in t.fields }]
    ELSE [formatted |-> FALSE, text |-> t.text, fields |-> t.fields, values |-> {}]

\* list_llm_modules(): the rows of the modules table, local_usage included
list_llm_modules(ms) ==
    { [uuid |-> m.uuid, name |-> m.name, local_usage |-> m.used_in_code] : m \in ms }

modules_with_local_usage_All(res_from_local_db) == res_from_local_db

\* the rows whose local_usage is True
modules_with_local_usage(res_from_local_db) ==
    { module \in res_from_local_db : module.local_usage }

\* create_llm_module_version gives the new row a fresh identifier
NewVersionUuid(vs) == <<"LV1", "LV2", "LV3", "LV4", "LV5">>[Cardinality(vs)]

\* the identifier of a row just created is a value of the unique-identifier
\* type; the identifiers a message carries are strings
IsUUID(v) == v \in {"LV1", "LV2", "LV3", "LV4", "LV5"}

\* json.dumps without an encoder class raises TypeError on such a value
JsonDumpsRaises(d) == IsUUID(d.llm_module_version_uuid)

MergeParsed_Overwrite(po, item) ==
    { kv \in po : kv[1] # item.key } \cup { <<item.key, item.value>> }

\* the merge of a dict item into output["parsed_outputs"]
MergeParsed(po, item) ==
    IF item.key \notin Keys(po)
    THEN po \cup { <<item.key, item.value>> }
    ELSE { IF kv[1] = item.key THEN <<kv[1], kv[2] \o item.value>> ELSE kv : kv \in po }

\* what an item of the stream adds to output
Accumulate(out, item) ==
    CASE item.kind = "raw" -> [out EXCEPT !.raw_output = @ \o item.value]
      [] item.kind = "parsed" -> [out EXCEPT !.parsed_outputs = MergeParsed(@, item)]
      [] OTHER -> out

RunData(status) ==
    [NoData EXCEPT !.bound = TRUE, !.type = "UPDATE_RESULT_RUN", !.status = status]

ItemData_NoDelta(d, item) == RunData("running")

\* the value of the local "data" after the if / elif on the type of the item:
\* an item that is neither str nor dict leaves it as it was
ItemData(d, item) ==
    CASE item.kind = "raw" -> [RunData("running") EXCEPT !.raw_output = item.value]
      [] item.kind = "parsed" ->
            [RunData("running") EXCEPT !.parsed_outputs = { <<item.key, item.value>> }]
      [] OTHER -> d

Failed(err) == [RunData("failed") EXCEPT !.log = err]

Completed == RunData("completed")

RunLogRow_Initial(rs, vu, si, out) ==
    [id |-> Cardinality(rs) + 1,
     version_uuid |-> vu,
     inputs |-> JsonObject(si),
     raw_output |-> JsonString(EmptyOutput.raw_output),
     parsed_outputs |-> JsonObject([none |-> FALSE,
                                    contents |-> EmptyOutput.parsed_outputs]),
     error |-> "None"]

\* the row create_run_log writes: no error text is handed to it
RunLogRow(rs, vu, si, out) ==
    [id |-> Cardinality(rs) + 1,
     version_uuid |-> vu,
     inputs |-> JsonObject(si),
     raw_output |-> JsonString(out.raw_output),
     parsed_outputs |-> JsonObject([none |-> FALSE, contents |-> out.parsed_outputs]),
     error |-> "None"]

\* the end of a run: the run log is written and the final response sent. A
\* send on a closed connection raises, the handler at the end of
\* __handle_message sends again and raises again, and the exception reaches
\* connect_to_gateway, which logs the warning and goes on to the next attempt.
Finish(resp, d, sent, vu, si, out) ==
    /\ run_logs' = run_logs \cup { RunLogRow(run_logs, vu, si, out) }
    /\ data' = d
    /\ response' = DictUpdate(resp, d)
    /\ IF conn = "open"
       THEN /\ outbox' = Append(sent, Json(DictUpdate(resp, d)))
            /\ hres' = "response"
            /\ cpc' = "recv"
            /\ UNCHANGED <<conn, oplog>>
       ELSE /\ outbox' = sent
            /\ hres' = "escaped"
            /\ cpc' = "loop"
            /\ conn' = "none"
            /\ oplog' = [oplog EXCEPT !.warning = @ + 1]

-----------------------------------------------------------------------------
(* The sync channel: connect_to_gateway and the steps of a run *)

\* one iteration of "for _ in range(retries)": connect() succeeds, times out
\* or fails in another way
Connect ==
    /\ cpc = "loop"
    /\ attempts < Retries
    /\ attempts' = attempts + 1
    /\ \E outcome \in {"connected", "timeout", "refused"} :
         CASE outcome = "connected" ->
                \* a new connection: nothing has been received or sent on it
                /\ conn' = "open"
                /\ cpc' = "recv"
                /\ oplog' = [oplog EXCEPT !.success = @ + 1]
                /\ message' = NoMessage
                /\ response' = NoData
                /\ data' = NoData
                /\ output' = EmptyOutput
                /\ sample_input' = NoInput
                /\ version_uuid' = "unbound"
                /\ outbox' = <<>>
                /\ consumed' = <<>>
                /\ llm_calls' = <<>>
                /\ hres' = "none"
                /\ rows_before' = Cardinality(run_logs)
           [] outcome = "timeout" ->
                /\ conn' = "none"
                /\ cpc' = "sleep"
                /\ oplog' = [oplog EXCEPT !.error = @ + 1]
                /\ UNCHANGED <<message, response, data, output, sample_input,
                               version_uuid, outbox, consumed, llm_calls, hres,
                               rows_before>>
           [] OTHER ->
                /\ conn' = "none"
                /\ cpc' = "loop"
                /\ oplog' = [oplog EXCEPT !.error = @ + 1]
                /\ UNCHANGED <<message, response, data, output, sample_input,
                               version_uuid, outbox, consumed, llm_calls, hres,
                               rows_before>>
    /\ UNCHANGED nMsgs
    /\ UNCHANGED <<storeVars, reloadVars>>

\* asyncio.sleep(retry_delay) is over
Wake ==
    /\ UNCHANGED rows_before
    /\ cpc = "sleep"
    /\ cpc' = "loop"
    /\ UNCHANGED <<attempts, conn, nMsgs, message, response, data, output,
                   sample_input, version_uuid, oplog, outbox, consumed,
                   llm_calls, hres>>
    /\ UNCHANGED <<storeVars, reloadVars>>

\* the for loop is exhausted: connect_to_gateway returns
Return ==
    /\ UNCHANGED rows_before
    /\ cpc = "loop"
    /\ attempts = Retries
    /\ cpc' = "returned"
    /\ UNCHANGED <<attempts, conn, nMsgs, message, response, data, output,
                   sample_input, version_uuid, oplog, outbox, consumed,
                   llm_calls, hres>>
    /\ UNCHANGED <<storeVars, reloadVars>>

\* the peer closes the connection, or the network fails
Drop ==
    /\ UNCHANGED rows_before
    /\ conn = "open"
    /\ cpc \in {"recv", "stream"}
    /\ conn' = "dropped"
    /\ UNCHANGED <<cpc, attempts, nMsgs, message, response, data, output,
                   sample_input, version_uuid, oplog, outbox, consumed,
                   llm_calls, hres>>
    /\ UNCHANGED <<storeVars, reloadVars>>

\* ws.recv() raises ConnectionClosed: the connection and what was received and
\* sent on it are gone
RecvClosed ==
    /\ rows_before' = Cardinality(run_logs)
    /\ cpc = "recv"
    /\ conn = "dropped"
    /\ cpc' = "loop"
    /\ conn' = "none"
    /\ oplog' = [oplog EXCEPT !.warning = @ + 1]
    /\ message' = NoMessage
    /\ response' = NoData
    /\ data' = NoData
    /\ output' = EmptyOutput
    /\ sample_input' = NoInput
    /\ version_uuid' = "unbound"
    /\ outbox' = <<>>
    /\ consumed' = <<>>
    /\ llm_calls' = <<>>
    /\ hres' = "none"
    /\ UNCHANGED <<attempts, nMsgs>>
    /\ UNCHANGED <<storeVars, reloadVars>>

\* a frame that json.loads cannot decode: the exception is raised in the
\* receive loop, outside __handle_message
RecvText ==
    /\ rows_before' = Cardinality(run_logs)
    /\ cpc = "recv"
    /\ conn = "open"
    /\ nMsgs < MaxMessages
    /\ nMsgs' = nMsgs + 1
    /\ message' = TextFrame
    /\ response' = NoData
    /\ data' = NoData
    /\ output' = EmptyOutput
    /\ sample_input' = NoInput
    /\ version_uuid' = "unbound"
    /\ outbox' = <<>>
    /\ consumed' = <<>>
    /\ llm_calls' = <<>>
    /\ hres' = "decode_error"
    /\ cpc' = "loop"
    /\ conn' = "none"
    /\ oplog' = [oplog EXCEPT !.error = @ + 1]
    /\ UNCHANGED attempts
    /\ UNCHANGED <<storeVars, reloadVars>>

\* a receive loop that takes the next message while a handler is still
\* running (the handler started as a task of its own), for comparison
RecvPlain_Concurrent ==
    /\ rows_before' = Cardinality(run_logs)
    /\ cpc \in {"recv", "stream"}
    /\ conn = "open"
    /\ nMsgs < MaxMessages
    /\ \E m \in PlainMessages :
         LET resp == Echo(m)
             d == [NoData EXCEPT !.bound = TRUE,
                                 !.llm_modules =
                                     [present |-> TRUE,
                                      rows |-> modules_with_local_usage(
                                                 list_llm_modules(modules))]]
         IN /\ message' = m
            /\ IF m.type = "LIST_MODULES"
               THEN /\ data' = d
                    /\ response' = DictUpdate(resp, d)
                    /\ outbox' = <<Json(DictUpdate(resp, d))>>
                    /\ hres' = "response"
               ELSE \* no branch binds data: "response.update(data)" raises
                    /\ data' = NoData
                    /\ response' = resp
                    /\ outbox' = <<ErrorText("UnboundLocalError")>>
                    /\ hres' = "error_text"
    /\ nMsgs' = nMsgs + 1
    /\ output' = EmptyOutput
    /\ sample_input' = NoInput
    /\ version_uuid' = "unbound"
    /\ consumed' = <<>>
    /\ llm_calls' = <<>>
    /\ UNCHANGED <<cpc, attempts, conn, oplog>>
    /\ UNCHANGED <<storeVars, reloadVars>>

\* a message of a kind other than RUN_LLM_MODULE
RecvPlain ==
    /\ rows_before' = Cardinality(run_logs)
    /\ cpc = "recv"
    /\ conn = "open"
    /\ nMsgs < MaxMessages
    /\ \E m \in PlainMessages :
         LET resp == Echo(m)
             d == [NoData EXCEPT !.bound = TRUE,
                                 !.llm_modules =
                                     [present |-> TRUE,
                                      rows |-> modules_with_local_usage(
                                                 list_llm_modules(modules))]]
         IN /\ message' = m
            /\ IF m.type = "LIST_MODULES"
               THEN /\ data' = d
                    /\ response' = DictUpdate(resp, d)
                    /\ outbox' = <<Json(DictUpdate(resp, d))>>
                    /\ hres' = "response"
               ELSE \* no branch binds data: "response.update(data)" raises
                    /\ data' = NoData
                    /\ response' = resp
                    /\ outbox' = <<ErrorText("UnboundLocalError")>>
                    /\ hres' = "error_text"
    /\ nMsgs' = nMsgs + 1
    /\ output' = EmptyOutput
    /\ sample_input' = NoInput
    /\ version_uuid' = "unbound"
    /\ consumed' = <<>>
    /\ llm_calls' = <<>>
    /\ UNCHANGED <<cpc, attempts, conn, oplog>>
    /\ UNCHANGED <<storeVars, reloadVars>>

\* a RUN_LLM_MODULE message, up to the first item of the stream
RecvRun ==
    /\ rows_before' = Cardinality(run_logs)
    /\ cpc = "recv"
    /\ conn = "open"
    /\ nMsgs < MaxMessages
    /\ Cardinality(run_logs) < MaxRuns
    /\ \E m \in RunMessages :
         LET resp == Echo(m)
             rows == { s \in Samples : s.name = m.sample_name }
             wanted == m.sample_name # "None"
             si == IF wanted /\ rows # {}
                   THEN [none |-> FALSE, contents |-> (CHOOSE s \in rows : TRUE).contents]
                   ELSE NoInput
             owner == { x \in modules : x.name = m.llm_module_name }
             given == m.uuid # "None"
             vu == IF given THEN m.uuid ELSE NewVersionUuid(versions)
             note == DictUpdate(
                       [RunData("running") EXCEPT
                          !.llm_module_version_uuid = vu,
                          !.inputs = [present |-> TRUE,
                                      contents |-> IF Truthy(si) THEN si.contents
                                                   ELSE {}]],
                       resp)
             sent == IF given THEN <<>> ELSE <<Json(note)>>
         IN /\ message' = m
            /\ nMsgs' = nMsgs + 1
            /\ consumed' = <<>>
            /\ attempts' = attempts
            /\ IF (wanted /\ rows = {}) \/ m.llm_module_name \notin devapp
               THEN \* logger.error and return: nothing is sent
                    /\ response' = resp
                    /\ data' = NoData
                    /\ output' = EmptyOutput
                    /\ sample_input' = si
                    /\ version_uuid' = "unbound"
                    /\ outbox' = <<>>
                    /\ llm_calls' = <<>>
                    /\ hres' = "silent"
                    /\ UNCHANGED <<cpc, conn, oplog, storeVars>>
               ELSE IF owner = {}
               THEN \* get_llm_module_uuid gives None: the run fails before
                    \* llm_module_version_uuid is bound, and create_run_log raises
                    /\ response' = resp
                    /\ data' = Failed("TypeError")
                    /\ output' = EmptyOutput
                    /\ sample_input' = si
                    /\ version_uuid' = "unbound"
                    /\ outbox' = <<ErrorText("UnboundLocalError")>>
                    /\ llm_calls' = <<>>
                    /\ hres' = "error_text"
                    /\ UNCHANGED <<cpc, conn, oplog, storeVars>>
               ELSE /\ output' = EmptyOutput
                    /\ sample_input' = si
                    /\ version_uuid' = vu
                    /\ versions' = IF given THEN versions
                                   ELSE versions \cup
                                          { [uuid |-> vu,
                                             prompt_model_uuid |->
                                                 (CHOOSE x \in owner : TRUE).uuid,
                                             status |-> "broken"] }
                    /\ prompts' = IF given THEN prompts
                                  ELSE prompts \cup
                                         { [uuid |-> vu, version_uuid |-> vu] }
                    /\ UNCHANGED <<modules, project_version>>
                    /\ IF ~ given /\ JsonDumpsRaises(note)
                       THEN \* the notification is never sent: the run fails
                            /\ llm_calls' = <<>>
                            /\ Finish(resp, Failed("TypeError"), <<>>, vu, si, EmptyOutput)
                       ELSE IF Truthy(si) /\ FormatRaises(m.prompts, si)
                       THEN /\ llm_calls' = <<>>
                            /\ Finish(resp, Failed("KeyError"), sent, vu, si, EmptyOutput)
                       ELSE /\ llm_calls' = <<MessagesForRun(m.prompts, si)>>
                            /\ response' = resp
                            /\ data' = IF given THEN NoData ELSE note
                            /\ outbox' = sent
                            /\ hres' = "running"
                            /\ cpc' = "stream"
                            /\ UNCHANGED <<conn, oplog, run_logs>>
    /\ UNCHANGED reloadVars

\* the stream gives an item: it is accumulated and "data" is sent
StreamItem ==
    /\ UNCHANGED rows_before
    /\ cpc = "stream"
    /\ Len(consumed) < MaxItems
    /\ \E item \in StreamItems :
         LET out == Accumulate(output, item)
             d == ItemData(data, item)
         IN /\ consumed' = Append(consumed, item)
            /\ output' = out
            /\ IF ~ d.bound
               THEN \* "data.update(response)" on an unbound local
                    Finish(response, Failed("UnboundLocalError"), outbox,
                           version_uuid, sample_input, out)
               ELSE IF conn # "open"
               THEN Finish(response, Failed("ConnectionClosed"), outbox,
                           version_uuid, sample_input, out)
               ELSE /\ data' = DictUpdate(d, response)
                    /\ outbox' = Append(outbox, Json(DictUpdate(d, response)))
                    /\ UNCHANGED <<cpc, conn, oplog, response, hres, run_logs>>
    /\ UNCHANGED <<attempts, nMsgs, message, sample_input, version_uuid, llm_calls>>
    /\ UNCHANGED <<modules, versions, prompts, project_version, reloadVars>>

\* the stream is exhausted
StreamEnd ==
    /\ UNCHANGED rows_before
    /\ cpc = "stream"
    /\ Finish(response, Completed, outbox, version_uuid, sample_input, output)
    /\ UNCHANGED <<attempts, nMsgs, message, output, sample_input, version_uuid,
                   consumed, llm_calls>>
    /\ UNCHANGED <<modules, versions, prompts, project_version, reloadVars>>

\* the stream raises (the provider fails)
StreamError ==
    /\ UNCHANGED rows_before
    /\ cpc = "stream"
    /\ Finish(response, Failed("ProviderError"), outbox, version_uuid,
              sample_input, output)
    /\ UNCHANGED <<attempts, nMsgs, message, output, sample_input, version_uuid,
                   consumed, llm_calls>>
    /\ UNCHANGED <<modules, versions, prompts, project_version, reloadVars>>

InitChannel ==
    /\ ChannelAtRest
    /\ WatcherAtRest
    /\ LockAtRest
    /\ RegistryAtRest
    /\ ProxyAtRest
    /\ BatchAtRest
    /\ modules = { [uuid |-> LocalUuid("a"), name |-> "a", used_in_code |-> TRUE,
                    is_deployed |-> FALSE],
                   [uuid |-> LocalUuid("b"), name |-> "b", used_in_code |-> FALSE,
                    is_deployed |-> FALSE] }
    /\ versions = { [uuid |-> GivenVersionUuid, prompt_model_uuid |-> LocalUuid("a"),
                     status |-> "broken"] }
    /\ prompts = { [uuid |-> GivenVersionUuid, version_uuid |-> GivenVersionUuid] }
    /\ run_logs = {}
    /\ project_version = <<0, 0, 0>>
    /\ devapp = {"a"}
    /\ rpc = "idle"
    /\ new_list = {}
    /\ old_list = {}
    /\ project_status = NoStatus
    /\ local_db_list = NoneList
    /\ entry = NoEntry
    /\ nReloads = 0
    /\ nRecords = 0
    /\ last = NoLast
    /\ collisions = {}
    /\ api_calls = {}

NextChannel ==
    \/ Connect /\ UNCHANGED <<watchVars, lockVars, regVars, proxyVars, batchVars>>
    \/ Wake /\ UNCHANGED <<watchVars, lockVars, regVars, proxyVars, batchVars>>
    \/ Return /\ UNCHANGED <<watchVars, lockVars, regVars, proxyVars, batchVars>>
    \/ Drop /\ UNCHANGED <<watchVars, lockVars, regVars, proxyVars, batchVars>>
    \/ RecvClosed /\ UNCHANGED <<watchVars, lockVars, regVars, proxyVars, batchVars>>
    \/ RecvText /\ UNCHANGED <<watchVars, lockVars, regVars, proxyVars, batchVars>>
    \/ RecvPlain /\ UNCHANGED <<watchVars, lockVars, regVars, proxyVars, batchVars>>
    \/ RecvRun /\ UNCHANGED <<watchVars, lockVars, regVars, proxyVars, batchVars>>
    \/ StreamItem /\ UNCHANGED <<watchVars, lockVars, regVars, proxyVars, batchVars>>
    \/ StreamEnd /\ UNCHANGED <<watchVars, lockVars, regVars, proxyVars, batchVars>>
    \/ StreamError /\ UNCHANGED <<watchVars, lockVars, regVars, proxyVars, batchVars>>

SpecChannel == InitChannel /\ [][NextChannel]_vars

-----------------------------------------------------------------------------
(* The file watcher: the debounce of CodeReloadHandler.on_modified *)

\* bound of the watcher model
MaxEvents == 5

\* Timer(0.5, ...) in ticks of 100 ms
DebounceTicks == 5

\* the clock of the observation stops counting a little after the debounce delay
QuietTicks == DebounceTicks + 2

CancelTimer_Nothing(ps, t) == ps

\* self.timer.cancel(): the timer self.timer refers to never fires; cancelling
\* a timer that has fired does nothing
CancelTimer(ps, t) ==
    IF t.set /\ t.pending THEN SubSeq(ps, 1, Len(ps) - 1) ELSE ps

\* on_modified for a path ending in ".py": the timer of the previous event is
\* cancelled and a new one is started
OnModifiedPy ==
    /\ nEvents < MaxEvents
    /\ nEvents' = nEvents + 1
    /\ pending' = Append(CancelTimer(pending, timer), DebounceTicks)
    /\ timer' = [set |-> TRUE, pending |-> TRUE]
    /\ burstLen' = IF sinceLast >= 0 /\ sinceLast < DebounceTicks
                   THEN burstLen + 1 ELSE 1
    /\ sinceLast' = 0
    /\ reloadsSince' = 0
    /\ firedAt' = -1
    /\ UNCHANGED <<reloading, escaped, lastReload>>
    /\ UNCHANGED <<storeVars, reloadVars, chanVars>>

\* on_modified for any other path does nothing
OnModifiedOther ==
    /\ nEvents < MaxEvents
    /\ nEvents' = nEvents + 1
    /\ UNCHANGED <<timer, pending, sinceLast, burstLen, reloadsSince, firedAt>>
    /\ UNCHANGED <<reloading, escaped, lastReload>>
    /\ UNCHANGED <<storeVars, reloadVars, chanVars>>

\* 100 ms pass; a timer that is due runs before more time passes
Tick ==
    /\ sinceLast >= 0
    /\ sinceLast < QuietTicks
    /\ \A i \in 1..Len(pending) : pending[i] > 0
    /\ pending' = [i \in 1..Len(pending) |-> pending[i] - 1]
    /\ sinceLast' = sinceLast + 1
    /\ UNCHANGED <<timer, nEvents, burstLen, reloadsSince, firedAt>>
    /\ UNCHANGED <<reloading, escaped, lastReload>>
    /\ UNCHANGED <<storeVars, reloadVars, chanVars>>

\* a timer is due: its thread calls reload_code
TimerFires ==
    /\ \E i \in 1..Len(pending) :
         /\ pending[i] = 0
         /\ pending' = SubSeq(pending, 1, i - 1) \o SubSeq(pending, i + 1, Len(pending))
         /\ timer' = IF i = Len(pending) THEN [timer EXCEPT !.pending = FALSE] ELSE timer
    /\ reloadsSince' = reloadsSince + 1
    /\ firedAt' = sinceLast
    /\ reloading' = reloading + 1
    /\ UNCHANGED <<sinceLast, nEvents, burstLen, escaped, lastReload>>
    /\ UNCHANGED <<storeVars, reloadVars, chanVars>>

\* importlib.reload or getattr raises (a syntax error in the source, the
\* instance name missing): nothing in reload_code or around it catches the
\* exception, which ends the timer thread; the registry is not touched
ReloadRaises ==
    /\ reloading > 0
    /\ reloading' = reloading - 1
    /\ escaped' = escaped + 1
    /\ lastReload' = [outcome |-> "raised", before |-> devapp]
    /\ UNCHANGED <<timer, pending, sinceLast, nEvents, burstLen, reloadsSince, firedAt>>
    /\ UNCHANGED <<storeVars, reloadVars, chanVars>>

\* reload_code runs to its last line: the channel's registry is replaced
ReloadCompletes ==
    /\ reloading > 0
    /\ reloading' = reloading - 1
    /\ \E nl \in SUBSET Names : devapp' = nl
    /\ lastReload' = [outcome |-> "completed", before |-> devapp]
    /\ UNCHANGED <<timer, pending, sinceLast, nEvents, burstLen, reloadsSince,
                   firedAt, escaped>>
    /\ UNCHANGED <<storeVars, reloadLocals, chanVars>>

InitWatch == InitReload

NextWatch ==
    \/ OnModifiedPy /\ UNCHANGED <<lockVars, regVars, proxyVars, batchVars>>
    \/ OnModifiedOther /\ UNCHANGED <<lockVars, regVars, proxyVars, batchVars>>
    \/ Tick /\ UNCHANGED <<lockVars, regVars, proxyVars, batchVars>>
    \/ TimerFires /\ UNCHANGED <<lockVars, regVars, proxyVars, batchVars>>
    \/ ReloadRaises /\ UNCHANGED <<lockVars, regVars, proxyVars, batchVars>>
    \/ ReloadCompletes /\ UNCHANGED <<lockVars, regVars, proxyVars, batchVars>>

SpecWatch == InitWatch /\ [][NextWatch]_vars

-----------------------------------------------------------------------------
(* The registry swap: the lock of DevWebsocketClient *)

\* the event loop (the only thread that dispatches) and the timer threads of
\* two reloads
Readers == {"loop"}
Writers == {"t1", "t2"}
Threads == Readers \cup Writers

\* the registries a reload can hand to update_client_instance
Registries == { {"a"}, {"a", "b"} }

\* threading.Lock.acquire / release
Free(l) == l = "free"

\* rwlock.RWLockFair: a reader holds the lock from the end of its acquire to
\* the start of its release, a writer likewise
HoldsRead(t) == lpc[t] \in {"r_held"}
HoldsWrite(t) == lpc[t] \in {"w_held", "w_swapped"}

\* _get_llm_modules is called: "with self.rwlock.gen_rlock()"
ReaderCall(t) ==
    /\ lpc[t] = "idle"
    /\ t \in Readers
    /\ lpc' = [lpc EXCEPT ![t] = "r_want"]
    /\ UNCHANGED <<c_lock_read, c_lock_read_count, c_lock_write, v_read_count,
                   new_client, lastRead, devapp, ws, lastSwap>>

\* gen_rlock().acquire(), first step: c_lock_read
ReaderEnter(t) ==
    /\ lpc[t] = "r_want"
    /\ Free(c_lock_read)
    /\ c_lock_read' = t
    /\ lpc' = [lpc EXCEPT ![t] = "r_count"]
    /\ UNCHANGED <<c_lock_read_count, c_lock_write, v_read_count, new_client,
                   lastRead, devapp, ws, lastSwap>>

\* c_lock_read_count, then v_read_count += 1
ReaderCount(t) ==
    /\ lpc[t] = "r_count"
    /\ Free(c_lock_read_count)
    /\ c_lock_read_count' = t
    /\ v_read_count' = v_read_count + 1
    /\ lpc' = [lpc EXCEPT ![t] = IF v_read_count = 0 THEN "r_first" ELSE "r_leave"]
    /\ UNCHANGED <<c_lock_read, c_lock_write, new_client, lastRead, devapp, ws, lastSwap>>

\* the first reader takes c_lock_write
ReaderFirst(t) ==
    /\ lpc[t] = "r_first"
    /\ Free(c_lock_write)
    /\ c_lock_write' = t
    /\ lpc' = [lpc EXCEPT ![t] = "r_leave"]
    /\ UNCHANGED <<c_lock_read, c_lock_read_count, v_read_count, new_client,
                   lastRead, devapp, ws, lastSwap>>

\* c_lock_read_count and c_lock_read are released: the read lock is held
ReaderAcquired(t) ==
    /\ lpc[t] = "r_leave"
    /\ c_lock_read_count' = "free"
    /\ c_lock_read' = "free"
    /\ lpc' = [lpc EXCEPT ![t] = "r_held"]
    /\ UNCHANGED <<c_lock_write, v_read_count, new_client, lastRead, devapp, ws, lastSwap>>

\* _get_llm_modules: the lookup in self._client.llm_modules, under the read lock
LookupLocked(t) ==
    /\ lpc[t] = "r_held"
    /\ lastRead' = [by |-> t, value |-> devapp, locked |-> HoldsRead(t)]
    /\ lpc' = [lpc EXCEPT ![t] = "r_release"]
    /\ UNCHANGED <<c_lock_read, c_lock_read_count, c_lock_write, v_read_count,
                   new_client, devapp, ws, lastSwap>>

\* gen_rlock().release(): the last reader releases c_lock_write
ReaderRelease(t) ==
    /\ lpc[t] = "r_release"
    /\ Free(c_lock_read_count)
    /\ v_read_count' = v_read_count - 1
    /\ c_lock_write' = IF v_read_count = 1 THEN "free" ELSE c_lock_write
    /\ lpc' = [lpc EXCEPT ![t] = "idle"]
    /\ UNCHANGED <<c_lock_read, c_lock_read_count, new_client, lastRead, devapp, ws, lastSwap>>

\* __handle_message, RUN_LLM_MODULE: the names of self._client.llm_modules are
\* read with no lock taken
LookupForRun(t) ==
    /\ lpc[t] = "idle"
    /\ t \in Readers
    /\ lastRead' = [by |-> t, value |-> devapp, locked |-> HoldsRead(t)]
    /\ UNCHANGED <<lpc, c_lock_read, c_lock_read_count, c_lock_write,
                   v_read_count, new_client, devapp, ws, lastSwap>>

\* update_client_instance(new_client) is called: "with self.rwlock.gen_wlock()"
WriterCall(t) ==
    /\ lpc[t] = "idle"
    /\ t \in Writers
    /\ \E r \in Registries : new_client' = [new_client EXCEPT ![t] = r]
    /\ lpc' = [lpc EXCEPT ![t] = "w_want"]
    /\ UNCHANGED <<c_lock_read, c_lock_read_count, c_lock_write, v_read_count,
                   lastRead, devapp, ws, lastSwap>>

\* gen_wlock().acquire(), first step: c_lock_read
WriterEnter(t) ==
    /\ lpc[t] = "w_want"
    /\ Free(c_lock_read)
    /\ c_lock_read' = t
    /\ lpc' = [lpc EXCEPT ![t] = "w_write"]
    /\ UNCHANGED <<c_lock_read_count, c_lock_write, v_read_count, new_client,
                   lastRead, devapp, ws, lastSwap>>

\* c_lock_write: the write lock is held
WriterAcquired(t) ==
    /\ lpc[t] = "w_write"
    /\ Free(c_lock_write)
    /\ c_lock_write' = t
    /\ lpc' = [lpc EXCEPT ![t] = "w_held"]
    /\ UNCHANGED <<c_lock_read, c_lock_read_count, v_read_count, new_client,
                   lastRead, devapp, ws, lastSwap>>

\* what "if self.ws: asyncio.run(self.ws.send(...))" does. The attribute is
\* not set before the first connection: AttributeError. A connection that has
\* closed is still a true value: the send is attempted and raises. On an open
\* connection the send runs in a second event loop, on a protocol object that
\* belongs to the loop of the channel: it goes through or it raises.
AlertOutcomes(w) ==
    CASE w = "unset" ->
           { [attempted |-> FALSE, sent |-> FALSE, raised |-> "AttributeError"] }
      [] w = "closed" ->
           { [attempted |-> TRUE, sent |-> FALSE, raised |-> "ConnectionClosed"] }
      [] OTHER ->
           { [attempted |-> TRUE, sent |-> TRUE, raised |-> "None"],
             [attempted |-> TRUE, sent |-> FALSE, raised |-> "RuntimeError"] }

\* the body of the "with": the registry is replaced, then the peer is alerted
Swap(t) ==
    /\ lpc[t] = "w_held"
    /\ devapp' = new_client[t]
    /\ \E o \in AlertOutcomes(ws) :
         lastSwap' = [by |-> t, ws |-> ws, applied |-> TRUE,
                      attempted |-> o.attempted, sent |-> o.sent,
                      raised |-> o.raised]
    /\ lpc' = [lpc EXCEPT ![t] = "w_swapped"]
    /\ UNCHANGED <<c_lock_read, c_lock_read_count, c_lock_write, v_read_count,
                   new_client, lastRead, ws>>

\* connect_to_gateway: "self.ws = ws" on a new connection
GatewayConnects ==
    /\ ws \in {"unset", "closed"}
    /\ ws' = "open"
    /\ UNCHANGED <<lpc, c_lock_read, c_lock_read_count, c_lock_write, v_read_count,
                   new_client, lastRead, lastSwap, devapp>>

\* the connection closes: self.ws keeps the closed connection
GatewayCloses ==
    /\ ws = "open"
    /\ ws' = "closed"
    /\ UNCHANGED <<lpc, c_lock_read, c_lock_read_count, c_lock_write, v_read_count,
                   new_client, lastRead, lastSwap, devapp>>

WriterRelease_KeepsReadLock(t) ==
    /\ lpc[t] = "w_swapped"
    /\ c_lock_write' = "free"
    /\ lpc' = [lpc EXCEPT ![t] = "idle"]
    /\ UNCHANGED <<c_lock_read, c_lock_read_count, v_read_count, new_client,
                   lastRead, devapp, ws, lastSwap>>

\* gen_wlock().release(): c_lock_write, then c_lock_read
WriterRelease(t) ==
    /\ lpc[t] = "w_swapped"
    /\ c_lock_write' = "free"
    /\ c_lock_read' = "free"
    /\ lpc' = [lpc EXCEPT ![t] = "idle"]
    /\ UNCHANGED <<c_lock_read_count, v_read_count, new_client, lastRead, devapp, ws, lastSwap>>

\* what the steps of the lock leave alone
LockFrame ==
    UNCHANGED <<storeVars, reloadLocals, chanVars, watchVars, regVars, proxyVars, batchVars>>

InitLock == InitChannel

NextLock ==
    \/ \E t \in Threads : ReaderCall(t) /\ LockFrame
    \/ \E t \in Threads : ReaderEnter(t) /\ LockFrame
    \/ \E t \in Threads : ReaderCount(t) /\ LockFrame
    \/ \E t \in Threads : ReaderFirst(t) /\ LockFrame
    \/ \E t \in Threads : ReaderAcquired(t) /\ LockFrame
    \/ \E t \in Threads : LookupLocked(t) /\ LockFrame
    \/ \E t \in Threads : ReaderRelease(t) /\ LockFrame
    \/ \E t \in Threads : LookupForRun(t) /\ LockFrame
    \/ \E t \in Threads : WriterCall(t) /\ LockFrame
    \/ \E t \in Threads : WriterEnter(t) /\ LockFrame
    \/ \E t \in Threads : WriterAcquired(t) /\ LockFrame
    \/ \E t \in Threads : Swap(t) /\ LockFrame
    \/ \E t \in Threads : WriterRelease(t) /\ LockFrame
    \/ GatewayConnects /\ LockFrame
    \/ GatewayCloses /\ LockFrame

SpecLock == InitLock /\ [][NextLock]_vars

\* Scheduling of the threads that use the lock. A thread inside a "with"
\* block goes on (weak fairness on the lookup, the swap and the steps that
\* take no mutex). A thread blocked in the acquire of a mutex that is free
\* again and again gets it in the end (strong fairness on the steps that take
\* a mutex): this is what a fair mutex means. Nothing obliges a thread to
\* call the lock, so the arrivals carry no fairness.
LockFairness ==
    /\ \A t \in Readers :
         /\ SF_vars(ReaderEnter(t) /\ LockFrame)
         /\ SF_vars(ReaderCount(t) /\ LockFrame)
         /\ SF_vars(ReaderFirst(t) /\ LockFrame)
         /\ WF_vars(ReaderAcquired(t) /\ LockFrame)
         /\ WF_vars(LookupLocked(t) /\ LockFrame)
         /\ SF_vars(ReaderRelease(t) /\ LockFrame)
    /\ \A t \in Writers :
         /\ SF_vars(WriterEnter(t) /\ LockFrame)
         /\ SF_vars(WriterAcquired(t) /\ LockFrame)
         /\ WF_vars(Swap(t) /\ LockFrame)
         /\ WF_vars(WriterRelease(t) /\ LockFrame)

SpecLockFair == InitLock /\ [][NextLock]_vars /\ LockFairness

-----------------------------------------------------------------------------
(* Properties of the reconciler and the reload pipeline (SpecReload) *)

\* C1: applying an ADD record for a version whose identifier an earlier ADD
\* already inserted completes, inserts nothing for that identifier (the
\* identifier-presence filter removes it) and leaves one row with it.
C1_AddVersionIdempotent ==
    ( /\ last.rec.subject = "prompt_model_version"
      /\ last.rec.action = "ADD"
      /\ last.again # {} )
    => /\ last.outcome = "applied"
       /\ last.inserted \cap last.again = {}
       /\ \A u \in last.again : Cardinality({ v \in versions : v.uuid = u }) = 1

\* C2: when reload_code has run to completion, the modules flagged
\* used_in_code are exactly the names of the reloaded registry.
C2_UsedInCodeIsNewList ==
    rpc = "done" => { m.name : m \in { x \in modules : x.used_in_code } } = new_list

-----------------------------------------------------------------------------
(* Properties of the sync channel (SpecChannel) *)

RECURSIVE RawSent(_)
\* the concatenation of the raw_output fields of the 'running' frames sent
RawSent(sent) ==
    IF sent = <<>> THEN ""
    ELSE LET f == Head(sent)
         IN (IF f.format = "json" /\ f.body.status = "running"
                  /\ f.body.raw_output # "None"
             THEN f.body.raw_output ELSE "") \o RawSent(Tail(sent))

RECURSIVE RawDeltas(_)
\* the concatenation of the raw-text deltas of the stream
RawDeltas(items) ==
    IF items = <<>> THEN ""
    ELSE (IF Head(items).kind = "raw" THEN Head(items).value ELSE "")
         \o RawDeltas(Tail(items))

IsTerminal(f) == f.format = "json" /\ f.body.status \in {"completed", "failed"}

RECURSIVE ValuesFor(_, _)
\* the values the structured deltas delivered for key k, joined in arrival order
ValuesFor(items, k) ==
    IF items = <<>> THEN ""
    ELSE (IF Head(items).kind = "parsed" /\ Head(items).key = k
          THEN Head(items).value ELSE "") \o ValuesFor(Tail(items), k)

ParsedKeys(items) ==
    { items[i].key : i \in { j \in 1..Len(items) : items[j].kind = "parsed" } }

\* C5: at every point of a run the accumulated parsed-output mapping has
\* exactly the keys the structured deltas consumed so far delivered, one value
\* per key, and the value of a key is the concatenation, in arrival order, of
\* all the values delivered for it.
C5_ParsedOutputsConcatenate ==
    /\ Keys(output.parsed_outputs) = ParsedKeys(consumed)
    /\ \A kv \in output.parsed_outputs : kv[2] = ValuesFor(consumed, kv[1])
    /\ Cardinality(output.parsed_outputs) = Cardinality(ParsedKeys(consumed))

\* a key is extended by a second delta while another key is present
C5_Witness ==
    /\ Len(consumed) = 3
    /\ output.parsed_outputs = { <<"name", "Alice">>, <<"age", "3">> }

\* C6: a run on an open connection whose template references a field the
\* resolved input lacks never reaches the LLM: it is answered by a terminal
\* 'failed' frame and leaves a run log with a non-empty error.
C6_MissingFieldFails ==
    ( /\ message.type = "RUN_LLM_MODULE"
      /\ hres \in {"running", "response"}
      /\ conn = "open"
      /\ ~ (message.prompts.fields \subseteq Keys(sample_input.contents)) )
    => /\ llm_calls = <<>>
       /\ hres = "response"
       /\ outbox[Len(outbox)].body.status = "failed"
       /\ \E r \in run_logs : r.version_uuid = version_uuid /\ r.error # "None"

\* C8: the step by which connect_to_gateway gives up, after the configured
\* number of attempts none of which connected, logs a record for the operator.
C8_GivingUpIsReported ==
    [][ (cpc # "returned" /\ cpc' = "returned" /\ oplog.success = 0)
        => oplog' # oplog ]_vars

\* C9: every frame sent for a request carries the correlation_id and the
\* runner_id of the request.
C9_IdentifiersEchoed ==
    \A i \in 1..Len(outbox) :
        /\ outbox[i].body.correlation_id = message.correlation_id
        /\ outbox[i].body.runner_id = message.runner_id

\* C10: after a failure to decode or to handle an inbound message the error
\* text has been sent on the connection, the connection is still there and the
\* receive loop is waiting for the next message.
C10_HandlingErrorKeepsConnection ==
    hres \in {"decode_error", "error_text"}
    => /\ cpc = "recv"
       /\ conn # "none"
       /\ Len(outbox) > 0
       /\ outbox[Len(outbox)].format = "text"

-----------------------------------------------------------------------------
(* Properties of the file watcher (SpecWatch) *)

\* C7: at most one timer is pending (each .py event cancels the timer of the
\* previous one); since the last .py event at most one reload has started, and
\* it started no earlier than 500 ms after that event; once more than 500 ms
\* have passed since the last event of a burst, exactly one reload has started
\* for it.
C7_OneReloadPerBurst ==
    /\ Len(pending) <= 1
    /\ reloadsSince <= 1
    /\ reloadsSince = 1 => firedAt >= DebounceTicks
    /\ sinceLast > DebounceTicks => reloadsSince = 1

\* a burst of five .py events has been followed by its reload
C7_Witness ==
    /\ burstLen = 5
    /\ sinceLast > DebounceTicks
    /\ reloadsSince = 1

\* the request names a module the registry does not hold, or a sample the
\* store does not hold
UnknownModuleOrSample(m) ==
    \/ m.llm_module_name \notin devapp
    \/ /\ m.sample_name # "None"
       /\ ~ \E s \in Samples : s.name = m.sample_name

\* C11: once the handler of a RUN_LLM_MODULE request that names an unknown
\* module or an unknown sample has ended on an open connection, the last
\* frame sent for the request is a terminal 'failed' frame and a run log has
\* been persisted.
C11_UnknownRunFails ==
    ( /\ message.type = "RUN_LLM_MODULE"
      /\ UnknownModuleOrSample(message)
      /\ hres \notin {"none", "running"}
      /\ conn = "open" )
    => /\ Len(outbox) > 0
       /\ outbox[Len(outbox)].format = "json"
       /\ outbox[Len(outbox)].body.status = "failed"
       /\ run_logs # {}

-----------------------------------------------------------------------------
(* Properties of the registry lock (SpecLock, SpecLockFair) *)

\* C12: every read of the registry on the dispatch path is made by a thread
\* that holds the read lock, the registry read is one a swap installed (or the
\* initial one), and no thread holds the read lock while another holds the
\* write lock.
C12_RegistryReadUnderLock ==
    /\ lastRead.by # "none" => lastRead.locked
    /\ lastRead.by # "none" => lastRead.value \in Registries
    /\ \A r \in Readers, w \in Writers : ~ (HoldsRead(r) /\ HoldsWrite(w))

\* C13: after a reload whose import of the source failed, the registry is the
\* one in place before it and no exception has left a timer thread; the
\* watcher goes on taking file events.
C13_ReloadFailureContained ==
    lastReload.outcome = "raised"
    => /\ devapp = lastReload.before
       /\ escaped = 0
       /\ (nEvents < MaxEvents => ENABLED OnModifiedPy)


\* C14: a connection that drops while a run is streaming aborts neither the
\* run nor the handler: no run ends as failed on a connection-closed error,
\* and no connection-closed error leaves __handle_message.
C14_DropDoesNotAbortRun ==
    /\ ~ (data.status = "failed" /\ data.log = "ConnectionClosed")
    /\ hres # "escaped"


\* the input a request names, as the store holds it
ResolvedInput(m) ==
    IF m.sample_name = "None" THEN NoInput
    ELSE [none |-> FALSE,
          contents |-> (CHOOSE s \in Samples : s.name = m.sample_name).contents]

\* a run request that passed the sample and module lookups has ended
RunEnded ==
    /\ message.type = "RUN_LLM_MODULE"
    /\ ~ UnknownModuleOrSample(message)
    /\ hres \in {"response", "escaped", "error_text"}

\* the run logs written since the latest request arrived
ThisRunRows == { row \in run_logs : row.id > rows_before }

-----------------------------------------------------------------------------
(* Registration: DevClient, DevApp and the metaclass of PromptModel *)

\* bound of the registration model
MaxOps == 3

Clients == {"c1", "c2"}

ModuleNames == {"a", "b"}

\* the names a decorated function passes to PromptModel("..."), in the order
\* of its bytecode
Funcs == { <<"a">>, <<"a", "b">>, <<"b", "b">> }

\* the Client instances among the globals of a module, in dict order
Scopes == { <<>>, <<"c1">>, <<"c2">>, <<"c1", "c2">>, <<"c2", "c1">> }

\* the globals of promptmodel.py itself hold the class Client, no instance
PromptModelGlobals == <<>>

Range(list) == { list[i] : i \in 1..Len(list) }

\* DevClient.register_prompt_model: a name already in the list is left alone
register_prompt_model(list, name) ==
    IF name \in Range(list) THEN list ELSE Append(list, name)

\* DevClient.register: one entry is appended per PromptModel("...") found
register(list, func) == list \o func

\* DevApp.include_client
include_client(list, client_list) == list \o client_list

\* Client.register_instance
register_instance(list, name) ==
    IF name \in Range(list) THEN list ELSE Append(list, name)

\* sys._getframe(depth).f_globals seen from find_client_instance: depth 0 is
\* find_client_instance, depth 1 is RegisteringMeta.__call__, whose globals
\* are those of promptmodel.py, depth 2 is the scope that constructs
FrameGlobals(depth, caller_globals) ==
    IF depth <= 1 THEN PromptModelGlobals ELSE caller_globals

\* RegisteringMeta.find_client_instance: the first Client among the globals
find_client_instance(caller_globals) ==
    LET global_vars == FrameGlobals(1, caller_globals)
    IN IF global_vars = <<>> THEN "None" ELSE Head(global_vars)

RegisterPromptModel(c, name) ==
    /\ nOps < MaxOps
    /\ nOps' = nOps + 1
    /\ prompt_models' =
         [prompt_models EXCEPT ![c] = register_prompt_model(@, name)]
    /\ UNCHANGED <<app_prompt_models, lastConstruct>>

Register(c, func) ==
    /\ nOps < MaxOps
    /\ nOps' = nOps + 1
    /\ prompt_models' = [prompt_models EXCEPT ![c] = register(@, func)]
    /\ UNCHANGED <<app_prompt_models, lastConstruct>>

IncludeClient(c) ==
    /\ nOps < MaxOps
    /\ nOps' = nOps + 1
    /\ app_prompt_models' = include_client(app_prompt_models, prompt_models[c])
    /\ UNCHANGED <<prompt_models, lastConstruct>>

\* RegisteringMeta.__call__: PromptModel(name) in a module whose globals
\* hold the clients of scope
Construct(name, scope) ==
    /\ nOps < MaxOps
    /\ nOps' = nOps + 1
    /\ LET client == find_client_instance(scope)
       IN /\ prompt_models' =
               IF client # "None"
               THEN [prompt_models EXCEPT ![client] = register_instance(@, name)]
               ELSE prompt_models
          /\ lastConstruct' =
               [name |-> name, scope |-> scope, returned |-> TRUE,
                registered |-> IF client # "None" THEN {client} ELSE {}]
    /\ UNCHANGED app_prompt_models

RegistryFrame ==
    UNCHANGED <<storeVars, reloadVars, chanVars, watchVars, lockVars, proxyVars,
                batchVars>>

InitRegistry == InitReload

NextRegistry ==
    \/ \E c \in Clients, name \in ModuleNames :
         RegisterPromptModel(c, name) /\ RegistryFrame
    \/ \E c \in Clients, func \in Funcs : Register(c, func) /\ RegistryFrame
    \/ \E c \in Clients : IncludeClient(c) /\ RegistryFrame
    \/ \E name \in ModuleNames, scope \in Scopes :
         Construct(name, scope) /\ RegistryFrame

SpecRegistry == InitRegistry /\ [][NextRegistry]_vars

NoDuplicates(list) ==
    \A i, j \in 1..Len(list) : list[i] = list[j] => i = j

\* C16: after any sequence of registrations a registry holds at most one
\* entry per module name, in every client and in the application.
C16_OneEntryPerName ==
    /\ \A c \in Clients : NoDuplicates(prompt_models[c])
    /\ NoDuplicates(app_prompt_models)

\* C17: constructing a module object returns the instance, and the instance
\* is registered with the one client visible in the globals of the
\* constructing scope when there is exactly one, and with none otherwise.
C17_AutoRegisterIffOneClient ==
    lastConstruct.name # "none"
    => /\ lastConstruct.returned
       /\ lastConstruct.registered =
            IF Len(lastConstruct.scope) = 1 THEN {lastConstruct.scope[1]} ELSE {}


C19_ListModulesIsFlaggedModules ==
    (message.type = "LIST_MODULES" /\ hres = "response")
    => LET body == outbox[Len(outbox)].body
       IN /\ body.llm_modules.present
          /\ { <<r.uuid, r.name>> : r \in body.llm_modules.rows }
               = { <<m.uuid, m.name>> : m \in { x \in modules : x.used_in_code } }

\* the list was answered while the store held a flagged and an unflagged module
C19_Witness ==
    /\ message.type = "LIST_MODULES"
    /\ hres = "response"
    /\ \E m \in modules : m.used_in_code
    /\ \E m \in modules : ~ m.used_in_code
    /\ outbox[Len(outbox)].body.llm_modules.rows # {}


-----------------------------------------------------------------------------
(* A run through LLMProxy: the four wrappers of llm_proxy.py *)

\* bounds of the proxy model
MaxProxyRuns == 2
MaxProxyItems == 2

Wrappers == {"method", "async_method", "gen", "async_gen"}

\* config["dev_branch"]: absent (a deployed program), initializing or online
Configs == {"deployed", "initializing", "online"}

\* the items a stream of the LLM can give: each may carry the api response,
\* a piece of raw output, an error
ProxyItems ==
    [api_response : BOOLEAN, raw_output : {"", "x"}, error : BOOLEAN]

\* _log_to_cloud: the number of POST requests it makes under a configuration
log_to_cloud(cfg) ==
    IF cfg \in {"initializing", "online"} THEN 0 ELSE 1

ProxyLocalsAtStart ==
    /\ raw_response' = "None"
    /\ string_cache' = ""
    /\ error_occurs' = FALSE
    /\ nYielded' = 0

\* wrapper(inputs): fetch_prompts, _prepare_call_args and, for the blocking
\* and async methods, the call of the LLM and the logging of its response.
\* format(**stringified_inputs) raises KeyError when inputs lack a field.
ProxyCall(w, cfg, inputs_ok) ==
    /\ ppc \in {"idle", "returned", "raised", "raised_at_end", "abandoned"}
    /\ nProxyRuns < MaxProxyRuns
    /\ nProxyRuns' = nProxyRuns + 1
    /\ wrapped' = w
    /\ config' = cfg
    /\ fetches' = 1
    /\ ProxyLocalsAtStart
    /\ IF ~ inputs_ok
       THEN /\ ppc' = "raised"
            /\ log_calls' = 0
            /\ posts' = 0
       ELSE IF w \in {"method", "async_method"}
       THEN /\ ppc' = "returned"
            /\ log_calls' = 1
            /\ posts' = log_to_cloud(cfg)
       ELSE /\ ppc' = "streaming"
            /\ log_calls' = 0
            /\ posts' = 0

\* one turn of "for item in stream_response": the item is accumulated and
\* yielded
ProxyItem(item) ==
    /\ ppc = "streaming"
    /\ nYielded < MaxProxyItems
    /\ nYielded' = nYielded + 1
    /\ raw_response' = IF item.api_response THEN "api_response" ELSE raw_response
    /\ string_cache' = string_cache \o item.raw_output
    /\ error_occurs' = (error_occurs \/ item.error)
    /\ UNCHANGED <<ppc, wrapped, config, fetches, log_calls, posts, nProxyRuns>>

\* the stream is exhausted: the content is added to raw_response, which
\* raises AttributeError when no item carried an api response, and the run is
\* logged
ProxyExhausted ==
    /\ ppc = "streaming"
    /\ IF raw_response = "None"
       THEN /\ ppc' = "raised_at_end"
            /\ UNCHANGED <<log_calls, posts>>
       ELSE /\ ppc' = "returned"
            /\ log_calls' = log_calls + 1
            /\ posts' = posts + log_to_cloud(config)
    /\ UNCHANGED <<wrapped, config, fetches, raw_response, string_cache,
                   error_occurs, nYielded, nProxyRuns>>

\* the caller stops iterating before the end of the stream
ProxyAbandon ==
    /\ ppc = "streaming"
    /\ ppc' = "abandoned"
    /\ UNCHANGED <<wrapped, config, fetches, log_calls, posts, raw_response,
                   string_cache, error_occurs, nYielded, nProxyRuns>>

ProxyFrame ==
    UNCHANGED <<storeVars, reloadVars, chanVars, watchVars, lockVars, regVars,
                batchVars>>

InitProxy == InitReload

NextProxy ==
    \/ \E w \in Wrappers, cfg \in Configs, inputs_ok \in BOOLEAN :
         ProxyCall(w, cfg, inputs_ok) /\ ProxyFrame
    \/ \E item \in ProxyItems : ProxyItem(item) /\ ProxyFrame
    \/ ProxyExhausted /\ ProxyFrame
    \/ ProxyAbandon /\ ProxyFrame

SpecProxy == InitProxy /\ [][NextProxy]_vars

\* C21: a run that produced its result, or whose stream was consumed to the
\* end, has fetched the prompts once and has logged itself to the cloud
\* exactly once.
C21_OneFetchOneCloudLog ==
    ppc \in {"returned", "raised_at_end"}
    => /\ fetches = 1
       /\ posts = 1


\* a run request without a version identifier passed the lookups and the
\* handler has gone past the creation of the version
NewVersionRun ==
    /\ message.type = "RUN_LLM_MODULE"
    /\ message.uuid = "None"
    /\ ~ UnknownModuleOrSample(message)
    /\ hres \in {"running", "response", "escaped"}

\* C22: a run request without a version identifier is answered first by a
\* 'running' frame that carries the identifier of the version created for
\* it, the version and its prompts being in the store by then, and the LLM
\* is never called before that frame is sent.
C22_NotificationBeforeLlmCall ==
    /\ (NewVersionRun /\ conn = "open")
       => /\ Len(outbox) > 0
          /\ outbox[1].format = "json"
          /\ outbox[1].body.status = "running"
          /\ outbox[1].body.llm_module_version_uuid = version_uuid
          /\ \E v \in versions : v.uuid = version_uuid
          /\ \E q \in prompts : q.version_uuid = version_uuid
    /\ (message.type = "RUN_LLM_MODULE" /\ message.uuid = "None"
          /\ llm_calls # <<>>)
       => /\ Len(outbox) > 0
          /\ outbox[1].body.llm_module_version_uuid = version_uuid


\* C23: a version created for a run request has status broken, and a version
\* inserted from a remote ADD record has status candidate, whatever status
\* the snapshot records for it.
C23_StatusFixedByOrigin ==
    /\ \A v \in versions :
         /\ v.uuid = LocalVersionUuid => v.status = "broken"
         /\ v.uuid \in { x.uuid : x \in RemoteVersions } => v.status = "candidate"
    /\ (last.outcome = "applied" /\ last.rec.subject = "prompt_model_version"
          /\ last.rec.action = "ADD")
       => \A u \in last.inserted :
            \E v \in versions : v.uuid = u /\ v.status = "candidate"

\* the store holds a version made for a run and a version the snapshot
\* records as working, inserted from an ADD record
C23_Witness ==
    /\ \E v \in versions : v.uuid = LocalVersionUuid /\ v.status = "broken"
    /\ \E v \in versions : v.uuid = "V1" /\ v.status = "candidate"
    /\ \E x \in project_status.prompt_model_versions :
         x.uuid = "V1" /\ x.status = "working"


\* C24: when a run has failed, its run log has empty raw and parsed outputs
\* and carries the error, and the terminal 'failed' frame carries the error
\* text.
C24_FailedRunLogHasError ==
    (RunEnded /\ hres = "response" /\ data.status = "failed")
    => /\ \A row \in ThisRunRows :
            /\ row.raw_output.value = ""
            /\ row.parsed_outputs.contents = {}
            /\ row.error # "None"
       /\ outbox[Len(outbox)].body.status = "failed"
       /\ outbox[Len(outbox)].body.log # "None"


\* C25: a swap takes effect in every state of the channel; the alert is sent
\* if and only if the channel is connected, and without a connection no send
\* is attempted and the swap raises nothing.
C25_AlertIffConnected ==
    lastSwap.by # "none"
    => /\ lastSwap.applied
       /\ lastSwap.sent <=> (lastSwap.ws = "open")
       /\ lastSwap.ws # "open"
          => (~ lastSwap.attempted /\ lastSwap.raised = "None")


\* C26: when a connection is lost the channel waits for the retry delay
\* before its next attempt: the step that ends a connection leads to the
\* sleep, never straight back to the head of the retry loop.
C26_CloseThenDelay ==
    [][ (conn # "none" /\ conn' = "none") => cpc' = "sleep" ]_vars


\* C28: when a version ADD record is applied, the versions its
\* identifier-presence filter looks at are all the versions of the store, those
\* of the modules inserted or remapped earlier in the batch included.
C28_FilterSeesWholeStore ==
    [][ ( /\ rpc = "entry"
          /\ nRecords' = nRecords + 1
          /\ last'.rec.subject = "prompt_model_version"
          /\ last'.rec.action = "ADD" )
        => LocalVersionsOfList(StoreState) = versions ]_vars

\* C30: a log record that fails abandons its own entry only: the batch goes
\* on with the next entry.
C30_FailureAbandonsOneEntry ==
    [][ (rpc = "entry" /\ last'.outcome = "raised") => rpc' = "changelog" ]_vars


\* C29: the versions, prompts and run logs of a version ADD record are in the
\* store together or not at all: a remote version is in the store exactly
\* when its prompts are and exactly when its run logs are.
C29_VersionGroupAllOrNothing ==
    \A x \in RemoteVersions :
      LET hasVersion == \E v \in versions : v.uuid = x.uuid
          ps == { p \in RemotePrompts : p.version_uuid = x.uuid }
          ls == { l \in RemoteRunLogs : l.version_uuid = x.uuid }
          hasPrompts == \A p \in ps : \E q \in prompts : q.uuid = p.uuid
          hasRunLogs == \A l \in ls : \E q \in run_logs : q.uuid = l.uuid
          somePrompt == \E p \in ps : \E q \in prompts : q.uuid = p.uuid
          someRunLog == \E l \in ls : \E q \in run_logs : q.uuid = l.uuid
      IN IF hasVersion THEN hasPrompts /\ hasRunLogs
         ELSE ~ somePrompt /\ ~ someRunLog


-----------------------------------------------------------------------------
(* One batch of the changelog, replayed as received:
   update_by_changelog_for_reload, reload_handler.py lines 166-272 *)

MaxEntries == 2
MaxLogs == 2

\* the records the entries of a batch list
BatchRecords ==
    { [subject |-> "prompt_model", action |-> "ADD", identifiers |-> {"RA", "RB"}],
      [subject |-> "prompt_model_version", action |-> "ADD", identifiers |-> {"V2"}],
      [subject |-> "prompt_model_version", action |-> "DEL", identifiers |-> {"V1"}] }

SeqsUpTo(S, n) == UNION { [1..k -> S] : k \in 0..n }

\* changelog["previous_version"], split at the dots and read as integers
BatchPreviousVersions == { <<1, 2, 3>>, <<0, 9, 9>> }

BatchEntries ==
    { [level |-> lv, logs |-> ls, previous_version |-> pv]
        : lv \in Levels, ls \in SeqsUpTo(BatchRecords, MaxLogs),
          pv \in BatchPreviousVersions }

\* the positions <<entry, log>> of a batch that come before position <<i, j>>
Before(i, j) == { p \in (1..i) \X (1..MaxLogs + 1) : p[1] < i \/ (p[1] = i /\ p[2] < j) }

\* the backend lists a version only after the module that owns it: in a batch
\* for an empty store, a record that adds a version follows a record of a
\* level 1 entry that adds the modules
ModuleFirst(cl) ==
    \A i \in 1..Len(cl) : \A j \in 1..Len(cl[i].logs) :
       (cl[i].logs[j].subject = "prompt_model_version" /\ cl[i].logs[j].action = "ADD")
       => \E p \in Before(i, j) :
             /\ p[2] <= Len(cl[p[1]].logs)
             /\ cl[p[1]].level = 1
             /\ cl[p[1]].logs[p[2]].subject = "prompt_model"

Batches == { cl \in SeqsUpTo(BatchEntries, MaxEntries) : ModuleFirst(cl) }

\* the end of an entry, in the record of what was applied
EndOfEntry == [subject |-> "end", action |-> "upsert_config", identifiers |-> {}]

\* the item `for log in logs` hands out at its li-th turn: a reversed
\* iteration, for comparison
LogAt_Reversed(logs, k) == logs[Len(logs) + 1 - k]

\* the item `for log in logs` hands out at its li-th turn (lines 184, 232)
LogAt(logs, k) == logs[k]

\* level 3 entries do not read their logs (lines 256-269)
ReadsLogs(level) == level \in {1, 2}

\* for log in logs: the next record of the current entry
BatchApplyLog ==
    /\ bpc = "running"
    /\ ci <= Len(changelogs)
    /\ ReadsLogs(changelogs[ci].level)
    /\ li <= Len(changelogs[ci].logs)
    /\ LET rec == LogAt(changelogs[ci].logs, li)
           st == ApplyRecord(changelogs[ci].level, rec, project_status, StoreState,
                             new_list)
       IN  /\ modules' = st.modules
           /\ versions' = st.versions
           /\ prompts' = st.prompts
           /\ run_logs' = st.run_logs
           /\ local_db_list' = st.list
           /\ bpc' = IF st.exc THEN "failed" ELSE "running"
           /\ appliedLogs' = Append(appliedLogs, [entry |-> ci, log |-> rec])
    /\ li' = li + 1
    /\ UNCHANGED <<project_version, devapp, rpc, new_list, old_list, project_status,
                   entry, nReloads, nRecords, last, collisions, api_calls,
                   changelogs, ci>>

\* the logs of the entry are exhausted: upsert_config of the bumped version
\* (line 271), then the next turn of `for changelog in changelogs`
BatchEndEntry ==
    /\ bpc = "running"
    /\ ci <= Len(changelogs)
    /\ ReadsLogs(changelogs[ci].level) => li > Len(changelogs[ci].logs)
    /\ project_version' = BumpVersion(changelogs[ci].level,
                                      changelogs[ci].previous_version)
    /\ appliedLogs' = Append(appliedLogs, [entry |-> ci, log |-> EndOfEntry])
    /\ ci' = ci + 1
    /\ li' = 1
    /\ UNCHANGED <<modules, versions, prompts, run_logs, reloadVars, changelogs, bpc>>

\* the entries are exhausted: the function returns
BatchReturn ==
    /\ bpc = "running"
    /\ ci > Len(changelogs)
    /\ bpc' = "done"
    /\ UNCHANGED <<storeVars, reloadVars, changelogs, ci, li, appliedLogs>>

BatchFrame ==
    UNCHANGED <<chanVars, watchVars, lockVars, regVars, proxyVars>>

\* the call of line 120: an empty store, the full snapshot, the names of the
\* code and a batch as the backend returned it
InitBatch ==
    /\ ChannelAtRest
    /\ WatcherAtRest
    /\ LockAtRest
    /\ RegistryAtRest
    /\ ProxyAtRest
    /\ modules = {}
    /\ versions = {}
    /\ prompts = {}
    /\ run_logs = {}
    /\ project_version = <<0, 0, 0>>
    /\ devapp = {}
    /\ rpc = "changelog"
    /\ new_list = Names
    /\ old_list = {}
    /\ project_status = SnapshotOf(RemoteModules)
    /\ local_db_list = SelectPromptModels({})
    /\ entry = NoEntry
    /\ nReloads = 1
    /\ nRecords = 0
    /\ last = NoLast
    /\ collisions = {}
    /\ api_calls = {}
    /\ changelogs \in Batches
    /\ bpc = "running"
    /\ ci = 1
    /\ li = 1
    /\ appliedLogs = <<>>

NextBatch ==
    \/ BatchApplyLog /\ BatchFrame
    \/ BatchEndEntry /\ BatchFrame
    \/ BatchReturn /\ BatchFrame

SpecBatch == InitBatch /\ [][NextBatch]_vars

\* what an entry contributes to the replay, in order: its records if its
\* level reads them, then the end of the entry
EntryEvents(cl, i) ==
    (IF ReadsLogs(cl[i].level)
     THEN [j \in 1..Len(cl[i].logs) |-> [entry |-> i, log |-> cl[i].logs[j]]]
     ELSE <<>>)
    \o << [entry |-> i, log |-> EndOfEntry] >>

RECURSIVE EventsUpTo(_, _)
EventsUpTo(cl, n) ==
    IF n = 0 THEN <<>> ELSE EventsUpTo(cl, n - 1) \o EntryEvents(cl, n)

IsPrefix(s, t) == Len(s) <= Len(t) /\ SubSeq(t, 1, Len(s)) = s

\* C27: what the replay of a batch has applied is, at every moment, an
\* initial part of the batch read in the order received: the entries first to
\* last, the records of an entry in their listed order, and nothing of an
\* entry before the end of the entry that precedes it
C27_AppliedInOrderReceived ==
    IsPrefix(appliedLogs, EventsUpTo(changelogs, Len(changelogs)))

\* two entries were replayed, the first with two different records applied
\* in turn, and a record of the second entry was applied after it
C27_Witness ==
    /\ Len(changelogs) = 2
    /\ Len(appliedLogs) >= 4
    /\ appliedLogs[1].entry = 1 /\ appliedLogs[2].entry = 1
    /\ appliedLogs[1].log # appliedLogs[2].log
    /\ appliedLogs[1].log # EndOfEntry /\ appliedLogs[2].log # EndOfEntry
    /\ appliedLogs[3] = [entry |-> 1, log |-> EndOfEntry]
    /\ appliedLogs[4].entry = 2 /\ appliedLogs[4].log # EndOfEntry


-----------------------------------------------------------------------------
(* Records whose action is not ADD *)

NonAddActions == Actions \ {"ADD"}

\* C31: a step that processes a log record whose action is DELETE, CHANGE or
\* FIX leaves the modules, versions, prompts and run logs of the local store
\* as they were
C31_NonAddLeavesStore ==
    [][ (rpc = "entry" /\ nRecords' = nRecords + 1
         /\ last'.rec.action \in NonAddActions)
        => UNCHANGED <<modules, versions, prompts, run_logs>> ]_vars

\* a non-ADD record that names a module or a version the store holds was
\* processed
C31_Witness ==
    /\ last.rec.action \in NonAddActions
    /\ last.rec.subject \in {"prompt_model", "prompt_model_version"}
    /\ last.outcome = "applied"
    /\ \/ \E m \in modules : m.uuid \in last.rec.identifiers
       \/ \E v \in versions : v.uuid \in last.rec.identifiers


-----------------------------------------------------------------------------
(* The version counter of an entry *)

\* the entry whose end was persisted last
LastEnded == changelogs[ci - 1]

\* C32: the version counter persisted at the end of an entry is, for the
\* entry's previous version major.minor.patch, (major+1).0.0 at level 1,
\* major.(minor+1).0 at level 2 and major.minor.(patch+1) at any other level
C32_CounterFromPreviousVersion ==
    (bpc # "idle" /\ ci > 1) =>
       LET pv == LastEnded.previous_version
       IN  /\ LastEnded.level = 1 => project_version = <<pv[1] + 1, 0, 0>>
           /\ LastEnded.level = 2 => project_version = <<pv[1], pv[2] + 1, 0>>
           /\ LastEnded.level \notin {1, 2}
                 => project_version = <<pv[1], pv[2], pv[3] + 1>>

\* an entry of level 1 whose previous version has a minor and a patch part
\* other than zero was persisted
C32_Witness ==
    /\ bpc # "idle" /\ ci > 1
    /\ LastEnded.level = 1
    /\ LastEnded.previous_version = <<1, 2, 3>>
    /\ project_version = <<2, 0, 0>>


-----------------------------------------------------------------------------
(* When the version counter is persisted *)

\* the counter the configuration holds when the replay of a batch starts
CounterBeforeBatch == <<0, 0, 0>>

\* C33: while a batch is being replayed, and after it was aborted midway,
\* the persisted version counter has the value it had before the batch
C33_CounterPersistedAfterBatch ==
    ((bpc = "running" /\ ci <= Len(changelogs)) \/ bpc = "failed")
       => project_version = CounterBeforeBatch


-----------------------------------------------------------------------------
(* Remote modules inserted by a module ADD record *)

\* the remote modules a record refers to whose name the store does not hold
NewRemoteModules(rec, ms) ==
    { x \in project_status.prompt_models :
         /\ x.uuid \in rec.identifiers
         /\ x.name \notin { m.name : m \in ms } }

\* C34: a step that processes an ADD module record of a level 1 entry leaves
\* in the store, for each remote module the record refers to whose name the
\* store did not hold, a row with is_deployed true and with used_in_code
\* equal to whether the name is in the freshly reloaded name list
C34_NewRemoteModuleInserted ==
    [][ (rpc = "entry" /\ entry.level = 1 /\ nRecords' = nRecords + 1
         /\ last'.rec.subject = "prompt_model" /\ last'.rec.action = "ADD")
        => \A x \in NewRemoteModules(last'.rec, modules) :
              [uuid |-> x.uuid, name |-> x.name,
               used_in_code |-> (x.name \in new_list),
               is_deployed |-> TRUE] \in modules' ]_vars


-----------------------------------------------------------------------------
(* The flag updates of a reload *)

\* the flag of every module of `before` is, in `after`, what `flag` gives
FlagsAre(before, after, flag(_)) ==
    \A m \in before : \E n \in after : n.uuid = m.uuid /\ n.used_in_code = flag(m)

\* C35: the flag updates of a reload change used_in_code only for the modules
\* in the difference of the two name lists: false for a name of the old list
\* that the new list lacks (the update at the start of the reload), true for
\* a name of the new list that the old list lacks (the update at its end),
\* and any other module, one in neither list included, keeps its flag
C35_FlagsChangeOnlyInDifference ==
    [][ /\ (rpc \in {"idle", "done", "failed"} /\ rpc' = "changelog")
           => LET Removed(m) == IF m.name \in old_list' \ new_list'
                                THEN FALSE ELSE m.used_in_code
              IN  FlagsAre(modules, modules', Removed)
        /\ (rpc = "changelog" /\ rpc' = "done")
           => LET Added(m) == IF m.name \in new_list \ old_list
                              THEN TRUE ELSE m.used_in_code
              IN  FlagsAre(modules, modules', Added) ]_vars


-----------------------------------------------------------------------------
(* What a reload sends to the backend *)

\* the names the new source list declares that the remote snapshot lacks
PurelyLocalNames ==
    new_list \ { x.name : x \in project_status.prompt_models }

\* C36: when a reload has ended, every module declared in the new source
\* list and absent from the remote snapshot has been pushed to the backend:
\* the reload has made a request that creates it
C36_PurelyLocalModulesPushed ==
    rpc = "done" =>
       \A n \in PurelyLocalNames :
          \E c \in api_calls : c.method = "POST" /\ n \in c.body


-----------------------------------------------------------------------------
(* When the channel's registry is replaced *)

\* the step in which a reload completes
ReloadEnds == rpc = "changelog" /\ rpc' = "done"

\* C37: the channel's registry is replaced in the step that completes the
\* reload, together with the last of the flag updates and local inserts and
\* after the changelog was reconciled; any other step of a reload, one that
\* raises included, leaves the registry as it was
C37_RegistrySwappedLast ==
    [][ /\ ReloadEnds =>
             /\ devapp' = new_list
             /\ modules' = InsertOnlyInLocal(FlagNotInOldList(modules, old_list),
                                             new_list)
        /\ ~ ReloadEnds => devapp' = devapp ]_vars

\* a second reload with another name list raised after the first one had
\* replaced the registry: the channel still holds the first reload's registry
C37_Witness ==
    /\ rpc = "failed"
    /\ nReloads = 2
    /\ devapp # {}
    /\ devapp = old_list
    /\ devapp # new_list


-----------------------------------------------------------------------------
(* Reload pipelines running at once *)

\* C38: at most one reload pipeline (reload_code) executes at any time
C38_OneReloadAtATime ==
    reloading <= 1


-----------------------------------------------------------------------------
(* A version record whose action is not ADD, followed by further records *)

\* the k-th thing the replay applied is a version record with a non-ADD action
NonAddVersionAt(k) ==
    /\ appliedLogs[k].log.subject = "prompt_model_version"
    /\ appliedLogs[k].log.action \in NonAddActions

\* C39: a version record with a non-ADD action does not disturb the module
\* list carried across records (after it the list is still a list), and the
\* record applied after it is applied as if it were absent: when it is the
\* first record of the batch, the record that follows it does not abort
\* the batch
C39_NonAddVersionRecordHarmless ==
    \A k \in 1..Len(appliedLogs) :
       NonAddVersionAt(k) =>
          /\ k = Len(appliedLogs) => ~ local_db_list.none
          /\ (k = 1 /\ Len(appliedLogs) = 2 /\ appliedLogs[2].log # EndOfEntry)
                => bpc # "failed"


-----------------------------------------------------------------------------
(* Inbound messages are handled one at a time *)

\* a handler is between its first and its last statement
HandlerRunning == cpc = "stream"

\* C40: a message is received only when no handler is running, and while a
\* handler runs the request it serves does not change and every frame sent
\* is added after the frames already sent for that request: the frames of
\* two requests do not interleave on the connection
C40_OneMessageAtATime ==
    [][ /\ nMsgs' # nMsgs => ~ HandlerRunning
        /\ HandlerRunning =>
              /\ message' = message
              /\ Len(outbox') >= Len(outbox)
              /\ SubSeq(outbox', 1, Len(outbox)) = outbox ]_vars

\* a second request, a run, was received after the first was handled, and
\* its handler has sent several frames and is still running
C40_Witness ==
    /\ nMsgs = 2
    /\ HandlerRunning
    /\ message.type = "RUN_LLM_MODULE"
    /\ Len(outbox) >= 2

====
